---------------------------- MODULE Spec2Model ----------------------------
(***************************************************************************)
(* The event-transport pipeline of windows-monitor-system:                 *)
(*   - the agent (wm-client): ETW callback, bounded channel, Connector     *)
(*     with its K batch buffers and detached flush tasks, the errors gate  *)
(*     and the Reconnector probe, the Backup store and the BackupSender    *)
(*     sweep;                                                              *)
(*   - the gateway (wm-api-service): POST /trace and POST /backup;         *)
(*   - the forwarder (wm-data-service): MessageForwarder::process.         *)
(*                                                                         *)
(* Byte strings are sequences of byte values.  A serialised record is the  *)
(* JSON object  { <payload> }  reduced to three bytes: '{', one payload    *)
(* byte that identifies the record, '}'.  JSON never contains a raw line   *)
(* feed, so payload bytes differ from '\n'.                                *)
(***************************************************************************)
EXTENDS Integers, Sequences, FiniteSets, TLC

\* ------------------------------------------------------------- bounds
MaxRecords == 3      \* records the ETW callback accepts in one run
QueueLimit == 1      \* message_queue_limit: capacity of the mpsc channel
FlushLimit == 8      \* event_post.flush_limit, in bytes
MaxFiles   == 2      \* backup file names in use in one run
K          == 2      \* event_post.concurrency_limit
MaxBody    == 3      \* bytes of a decompressed request body at the gateway
MaxMsgs    == 3      \* messages in the "events" queue when the forwarder starts
MaxDeliveries == 5   \* deliveries (delivery tags) in one run of the forwarder
Prefetch   == 2      \* throughput.prefetch_count
FwFlushLimit == 2    \* throughput.flush_limit, in documents of the bulk body
NCallers   == 3      \* tasks that call get_or_try_init on one cell
ProbeLow   == 3      \* names at each end of the range that may be free at first
NPoolCallers == 4    \* tasks that acquire from one pool
MaxStops   == 3      \* calls of stop() on one module
MaxTurns   == 3      \* events listen() returns to one module's run

\* -------------------------------------------------- program constants
LBRACKET == 91       \* b'['
RBRACKET == 93       \* b']'
COMMA    == 44       \* b','
NL       == 10       \* b'\n'
LBRACE   == 123      \* b'{'
RBRACE   == 125      \* b'}'
NameLimit == 1000    \* backup-0.zst .. backup-999.zst
InitialSleep == 5    \* Reconnector: first sleep interval, seconds
MaxSleep == 60       \* Reconnector: cap of the sleep interval, seconds

VARIABLES
    \* ---- agent: tracer callback and channel
    accepted,   \* number of records accepted by the callback (ids 1..accepted)
    chan,       \* the bounded mpsc channel, a sequence of record ids
    overflow,   \* records held by spawned overflow-backup tasks not yet run
    \* ---- agent: Connector
    cpc,        \* position of Connector's Module::run
    held,       \* the event listen() returned and handle() has not yet consumed
    stopped,    \* the Connector's stop latch
    buf,        \* _uncompressed_buffer_pool: buffer index -> bytes
    index,      \* _uncompressed_buffer_pool_index
    drainIdx,   \* after_hook: next buffer to acquire
    fpc,        \* per buffer: position of the flush task that owns its guard
    fl,         \* per buffer: the locals of that flush task
    errors,     \* _errors_count
    poolFree,   \* free buffers of _compressed_buffer_pool
    sleepSecs,  \* Reconnector::_sleep_secs
    sent,       \* records whose batch or backup file the server accepted
    \* ---- agent: Backup store and BackupSender
    files,      \* backup directory: file index -> bytes written to it
    curPath,    \* Backup::_path, the index of the current file
    bstopped,   \* BackupSender's stop latch
    probe,      \* Reconnector::handle: the reply of the probe in flight
    \* ---- agent: Backup::upload, entry by entry
    spc,        \* position of BackupSender::handle
    entries,    \* names read_dir will still yield in this sweep
    upl,        \* the file being POSTed to /backup and the reply, if any
    canon,      \* TRUE when entry.path() compares equal to the canonical _path
    panicked,   \* TRUE once _switch_to_new_path has panicked
    rot,        \* what the last sweep saw of the current file, and what it did
    elapsed,    \* milliseconds since BackupSender::_last_backup_switch
    \* ---- gateway: one request to /trace or /backup
    route,      \* "/trace" or "/backup"
    peer,       \* the peer address of the connection
    rabbitmq,   \* what App::rabbitmq() yields: TRUE for Some(channel)
    stream,     \* decompressed bytes the body will still deliver
    corrupt,    \* TRUE when the body stream ends in a read error
    chained,    \* TRUE once the chained "\n" has been read
    gpc,        \* position of the handler (for /trace: of the spawned task)
    buffer,     \* the scratch buffer of the read loop
    response,   \* the status answered, 0 while there is no answer
    queue,      \* the bodies published to the "events" queue, in order
    publishFailed, \* TRUE once a basic_publish returned an error
    request,    \* the decompressed body as it was sent (never changes)
    \* ---- forwarder and its broker channel
    poison,     \* the messages whose body is not an envelope (never changes)
    elastic,    \* what App::elastic() yields: TRUE for Some(client)
    ready,      \* broker: messages of the queue waiting for delivery
    unacked,    \* broker: delivery tag -> message, delivered and unsettled
    nextTag,    \* broker: the next delivery tag of the channel
    settled,    \* broker: messages that were acked (removed from the queue)
    requeued,   \* broker: messages that were ever nacked with requeue
    fwBody,     \* MessageForwarder::_body, the documents of the bulk body
    acker,      \* MessageForwarder::_acker, a delivery tag, 0 for None
    indexed,    \* documents the index has accepted
    bulk,       \* the bulk request of the last process call, if it made one
    \* ---- OnceCellNoRetry with its callers
    initializing, \* _initializing
    initialized,  \* _initialized
    callers,    \* caller -> its position in get_or_try_init and its result
    attempts,   \* the outcomes of the initializer's runs, in order
    \* ---- Module::run of one module and the calls of its stop()
    mpc,        \* position of run
    latch,      \* the module's SetOnce: TRUE once set
    stops,      \* calls of stop() so far
    turns,      \* handle calls started so far
    further,    \* handle calls started with the latch already set
    hooks,      \* runs of after_hook so far
    mres,       \* what run returned: "none" while it has not
    \* ---- CapturedEventRecord::to_ecs applied to one record
    ev,         \* the record: its EventData variant and its opcode
    doc,        \* the event fields of the document, once projected
    \* ---- windows_timestamp applied to one raw_timestamp
    tick,       \* the i64 argument: its sign and its magnitude
    stamp,      \* the DateTime<Utc> returned, once converted
    \* ---- the locks of the agent and the tasks that take them
    lpc,        \* task -> its position
    holders,    \* lock -> the tasks that hold it
    \* ---- Pool<T> and the tasks that acquire from it
    pchan,      \* the items in the channel of the pool, oldest first
    ptask,      \* task -> its position in acquire / drop and its item
    \* ---- the compression of one batch into a pooled buffer
    zin,        \* the batch, the length of its zstd frame, the pooled buffer
    zout        \* the body of the POST /trace, once read

agentVars == <<accepted, chan, overflow, cpc, held, stopped, buf, index, drainIdx,
               fpc, fl, errors, poolFree, sleepSecs, sent, files, curPath,
               bstopped, probe>>

gatewayVars == <<route, peer, rabbitmq, stream, corrupt, chained, gpc, buffer,
                 response, queue, publishFailed, request>>

forwarderVars == <<poison, elastic, ready, unacked, nextTag, settled, requeued,
                   fwBody, acker, indexed, bulk>>

uploadVars == <<spc, entries, upl, canon, panicked, rot, elapsed>>

cellVars == <<initializing, initialized, callers, attempts>>

moduleVars == <<mpc, latch, stops, turns, further, hooks, mres>>

ecsVars == <<ev, doc>>
clockVars == <<tick, stamp>>
lockVars == <<lpc, holders>>
poolVars == <<pchan, ptask>>
zstdVars == <<zin, zout>>

\* the components that are modelled on their own
extraVars == <<moduleVars, ecsVars, clockVars, lockVars, poolVars, zstdVars>>

vars == <<agentVars, gatewayVars, forwarderVars, uploadVars, cellVars, extraVars>>

\* what the steps of one component leave alone
notAgent       == <<gatewayVars, forwarderVars, uploadVars, cellVars, extraVars>>
notAgentUpload == <<gatewayVars, forwarderVars, cellVars, extraVars>>
notUpload      == <<agentVars, gatewayVars, forwarderVars, cellVars, extraVars>>
notGateway     == <<agentVars, forwarderVars, uploadVars, cellVars, extraVars>>
notForwarder   == <<agentVars, gatewayVars, uploadVars, cellVars, extraVars>>
notCell        == <<agentVars, gatewayVars, forwarderVars, uploadVars, extraVars>>
pipelineVars   == <<agentVars, gatewayVars, forwarderVars, uploadVars, cellVars>>
notModule      == <<pipelineVars, ecsVars, clockVars, lockVars, poolVars, zstdVars>>
notEcs         == <<pipelineVars, moduleVars, clockVars, lockVars, poolVars, zstdVars>>
notClock       == <<pipelineVars, moduleVars, ecsVars, lockVars, poolVars, zstdVars>>
notLocks       == <<pipelineVars, moduleVars, ecsVars, clockVars, poolVars, zstdVars>>
notPool        == <<pipelineVars, moduleVars, ecsVars, clockVars, lockVars, zstdVars>>
notZstd        == <<pipelineVars, moduleVars, ecsVars, clockVars, lockVars, poolVars>>
notAgentLocks  == <<gatewayVars, forwarderVars, uploadVars, cellVars, moduleVars, ecsVars,
                    clockVars, poolVars, zstdVars>>

tracerVars == <<accepted, chan, overflow>>
connVars   == <<cpc, held, stopped, index, drainIdx>>
flushVars  == <<buf, fpc, fl, errors, poolFree, sent>>
storeVars  == <<files, curPath>>
sweepVars  == <<bstopped>>

Buffers == 0 .. K - 1
NoEvent == [kind |-> "none", rec |-> 0]
Tick    == [kind |-> "tick", rec |-> 0]
Rec(r)  == [kind |-> "rec", rec |-> r]

\* ------------------------------------------------------ pure functions

\* CapturedEventRecord::serialize_to_writer
Serialize(r) == <<LBRACE, r, RBRACE>>

\* a buffer that is cleared and not given its opening bracket
FreshBufferEmpty == <<>>

\* a buffer in its fresh state: the single byte '['
FreshBuffer == <<LBRACKET>>

\* raw_payload.pop(); raw_payload.push(b']')
Finalize(b) == SubSeq(b, 1, Len(b) - 1) \o <<RBRACKET>>

\* the records whose serialised form occurs in a byte string
RecordsIn(bytes) ==
    { bytes[i] : i \in { j \in 2 .. Len(bytes) - 1 :
                           bytes[j - 1] = LBRACE /\ bytes[j + 1] = RBRACE } }

\* the set of elements of a sequence
Range(s) == { s[i] : i \in 1 .. Len(s) }

Min(a, b) == IF a < b THEN a ELSE b

\* a probe that takes the last free name
ProbeLastFree(fs, i) ==
    LET free == (i .. NameLimit - 1) \ DOMAIN fs
    IN IF free = {} THEN -1 ELSE CHOOSE k \in free : \A j \in free : k >= j

\* Backup::_switch_to_new_path: the loop tries backup-{index}.zst for index
\* i, i + 1, .. and stops at the first name it can create (create_new fails
\* on a name that exists); -1 stands for the panic when index reaches 1000.
\* Of any n + 1 consecutive names at most n exist when the directory holds n
\* files, so the loop ends within the names i .. i + n.
ProbeNewPath(fs, i) ==
    LET last == Min(NameLimit - 1, i + Cardinality(DOMAIN fs))
        free == (i .. last) \ DOMAIN fs
    IN IF free = {} THEN -1 ELSE CHOOSE k \in free : \A j \in free : k <= j

\* a gate that never closes
DisconnectedNever == errors > K

\* Connector::_disconnected
Disconnected == errors = K

\* the replies a request of the agent can get: a transport error, or a
\* status with a body that parses as the expected JSON type or does not
NetError == [err |-> TRUE, status |-> 0, json |-> FALSE]
Http(status, json) == [err |-> FALSE, status |-> status, json |-> json]
TraceReplies  == {NetError, Http(200, TRUE), Http(200, FALSE), Http(503, TRUE)}
HealthReplies == {NetError, Http(204, FALSE), Http(503, FALSE)}
BackupReplies == {NetError, Http(204, FALSE), Http(503, FALSE)}

\* a success test that looks at the status only
TraceSuccessAnyBody(reply) == ~reply.err /\ reply.status = 200

\* _send_payload_utils: status == 200 && response.json::<TraceResponse>() is Ok
TraceSuccess(reply) == ~reply.err /\ reply.status = 200 /\ reply.json

NoReply == [err |-> FALSE, status |-> 0, json |-> FALSE]
BlankFlush == [gate |-> "none", posts |-> 0, reply |-> NoReply]

\* ------------------------------------------------------------- Init
InitModules ==
    /\ accepted = 0
    /\ chan = <<>>
    /\ overflow = {}
    /\ cpc = "listen"
    /\ held = NoEvent
    /\ stopped = FALSE
    /\ buf = [b \in Buffers |-> FreshBuffer]
    /\ index = 0
    /\ drainIdx = 0
    /\ fpc = [b \in Buffers |-> "none"]
    /\ fl = [b \in Buffers |-> BlankFlush]
    /\ errors = 0
    /\ poolFree = K
    /\ sleepSecs = InitialSleep
    /\ sent = {}
    /\ bstopped = FALSE
    /\ probe = NoReply

\* Backup::async_new in an empty backup directory: backup-0.zst is created
InitAgent ==
    /\ InitModules
    /\ files = (0 :> <<>>)
    /\ curPath = 0

\* a backup directory in which all the names exist except some of the
\* ProbeLow lowest and of the ProbeLow highest; the current file is
\* backup-{ProbeLow}.zst
ProbeHoles == (0 .. ProbeLow - 1) \cup (NameLimit - ProbeLow .. NameLimit - 1)
InitNames ==
    /\ InitModules
    /\ \E holes \in SUBSET ProbeHoles :
         files = [g \in (0 .. NameLimit - 1) \ holes |-> Serialize(1) \o <<NL>>]
    /\ curPath = ProbeLow

\* ----------------------------------------------------- tracer callback

\* a callback that drops the record when the channel is full
CallbackDropsWhenFull ==
    /\ ~stopped
    /\ accepted < MaxRecords
    /\ accepted' = accepted + 1
    /\ chan' = IF Len(chan) < QueueLimit THEN Append(chan, accepted + 1) ELSE chan
    /\ UNCHANGED <<notAgent, probe, overflow, connVars, flushVars, sleepSecs, storeVars, sweepVars>>

\* _callback_impl: the record is enriched, then try_send; on failure a task
\* is spawned that will lock the backup and write_one
Callback ==
    /\ ~stopped
    /\ accepted < MaxRecords
    /\ accepted' = accepted + 1
    /\ IF Len(chan) < QueueLimit
         THEN /\ chan' = Append(chan, accepted + 1)
              /\ UNCHANGED overflow
         ELSE /\ overflow' = overflow \cup {accepted + 1}
              /\ UNCHANGED chan
    /\ UNCHANGED <<notAgent, probe, connVars, flushVars, sleepSecs, storeVars, sweepVars>>

\* Backup::write_one under the backup mutex, run by the spawned task
OverflowWrite(r) ==
    /\ r \in overflow
    /\ overflow' = overflow \ {r}
    /\ files' = [files EXCEPT ![curPath] = @ \o Serialize(r) \o <<NL>>]
    /\ UNCHANGED <<notAgent, probe, accepted, chan, connVars, flushVars, sleepSecs, curPath, sweepVars>>

\* ------------------------------------------------------- Connector

\* Module::run, the select of one loop turn: listen() returns a record
Listen ==
    /\ cpc = "listen"
    /\ ~stopped
    /\ chan # <<>>
    /\ held' = Rec(Head(chan))
    /\ chan' = Tail(chan)
    /\ cpc' = "handle"
    /\ UNCHANGED <<notAgent, probe, accepted, overflow, stopped, index, drainIdx, flushVars,
                   sleepSecs, storeVars, sweepVars>>

\* Module::run, the select of one loop turn: listen() times out after 1 s
ListenTimeout ==
    /\ cpc = "listen"
    /\ ~stopped
    /\ chan = <<>>
    /\ held' = Tick
    /\ cpc' = "handle"
    /\ UNCHANGED <<notAgent, probe, tracerVars, stopped, index, drainIdx, flushVars,
                   sleepSecs, storeVars, sweepVars>>

GuardFreeAlways(b) == TRUE

\* lock_owned() on the mutex of buffer b returns: no flush owns its guard
GuardFree(b) == fpc[b] = "none"

SpawnNothing(b, newbuf) ==
    /\ buf' = [buf EXCEPT ![b] = newbuf]
    /\ UNCHANGED <<fpc, fl>>

\* tokio::spawn(_send_payload_utils(payload)) and the store of the next index
SpawnFlush(b, newbuf) ==
    /\ buf' = [buf EXCEPT ![b] = newbuf]
    /\ fpc' = [fpc EXCEPT ![b] = "start"]
    /\ fl' = [fl EXCEPT ![b] = BlankFlush]

\* Connector::handle: waits for the guard of buffer `index`, then appends the
\* record and a comma and schedules a flush when the buffer exceeds the
\* limit, or schedules a flush on a timeout.  (Serialising into a Vec<u8>
\* cannot fail, so the Err arm of serialize_to_writer is not reachable.)
Handle ==
    /\ cpc = "handle"
    /\ GuardFree(index)
    /\ IF held.kind = "rec"
         THEN LET grown == buf[index] \o Serialize(held.rec) \o <<COMMA>> IN
              IF Len(grown) > FlushLimit
                THEN /\ SpawnFlush(index, grown)
                     /\ index' = (index + 1) % K
                ELSE /\ buf' = [buf EXCEPT ![index] = grown]
                     /\ UNCHANGED <<fpc, fl, index>>
         ELSE /\ SpawnFlush(index, buf[index])
              /\ index' = (index + 1) % K
    /\ held' = NoEvent
    /\ cpc' = "listen"
    /\ UNCHANGED <<notAgent, probe, tracerVars, stopped, drainIdx, errors, poolFree, sent,
                   sleepSecs, storeVars, sweepVars>>

\* Module::stop on the agent's modules: sets the latches (a second call
\* leaves them set)
AgentStop ==
    /\ ~stopped
    /\ stopped' = TRUE
    /\ bstopped' = TRUE
    /\ UNCHANGED <<notAgent, probe, tracerVars, cpc, held, index, drainIdx, flushVars, sleepSecs,
                   storeVars>>

\* Module::run: the latch is set, the loop is left and after_hook starts
\* (the Reconnector is stopped and joined)
Break ==
    /\ cpc = "listen"
    /\ stopped
    /\ probe = NoReply
    /\ cpc' = "after"
    /\ drainIdx' = 0
    /\ UNCHANGED <<notAgent, probe, tracerVars, held, stopped, index, flushVars, sleepSecs,
                   storeVars, sweepVars>>

\* Connector::after_hook, one turn of the first loop: lock_owned() on the
\* next buffer, then spawn its flush
AfterAcquire ==
    /\ cpc = "after"
    /\ drainIdx < K
    /\ GuardFree(drainIdx)
    /\ SpawnFlush(drainIdx, buf[drainIdx])
    /\ drainIdx' = drainIdx + 1
    /\ UNCHANGED <<notAgent, probe, tracerVars, cpc, held, stopped, index, errors, poolFree, sent,
                   sleepSecs, storeVars, sweepVars>>

\* an after_hook that returns without awaiting the spawned tasks
AfterJoinNoWait ==
    /\ cpc = "after"
    /\ drainIdx = K
    /\ cpc' = "done"
    /\ UNCHANGED <<notAgent, probe, tracerVars, held, stopped, index, drainIdx, flushVars, sleepSecs,
                   storeVars, sweepVars>>

\* Connector::after_hook, the second loop: every spawned task is awaited
AfterJoin ==
    /\ cpc = "after"
    /\ drainIdx = K
    /\ \A b \in Buffers : fpc[b] = "none"
    /\ cpc' = "done"
    /\ UNCHANGED <<notAgent, probe, tracerVars, held, stopped, index, drainIdx, flushVars, sleepSecs,
                   storeVars, sweepVars>>

\* ------------------------------------- Connector::_send_payload_utils

\* lines 88-95: the fresh-buffer return, the closing bracket, the gate
FlushStart(b) ==
    /\ fpc[b] = "start"
    /\ IF Len(buf[b]) = 1
         THEN /\ fpc' = [fpc EXCEPT ![b] = "none"]
              /\ UNCHANGED <<buf, fl>>
         ELSE /\ buf' = [buf EXCEPT ![b] = Finalize(buf[b])]
              /\ fl' = [fl EXCEPT ![b].gate = IF Disconnected THEN "disc" ELSE "conn"]
              /\ fpc' = [fpc EXCEPT ![b] = IF Disconnected THEN "backup" ELSE "compress"]
    /\ UNCHANGED <<notAgent, probe, tracerVars, connVars, errors, poolFree, sent, sleepSecs,
                   storeVars, sweepVars>>

\* lines 97-121: a compressed buffer is acquired from the pool, the batch is
\* compressed, and on success the POST /trace is issued
FlushCompress(b) ==
    /\ fpc[b] = "compress"
    /\ poolFree > 0
    /\ poolFree' = poolFree - 1
    /\ \E compressed \in BOOLEAN :
         IF compressed
           THEN /\ fpc' = [fpc EXCEPT ![b] = "post"]
                /\ fl' = [fl EXCEPT ![b].posts = @ + 1]
           ELSE /\ fpc' = [fpc EXCEPT ![b] = "failed"]
                /\ UNCHANGED fl
    /\ UNCHANGED <<notAgent, probe, tracerVars, connVars, buf, errors, sent, sleepSecs,
                   storeVars, sweepVars>>

\* lines 122-142: the reply of POST /trace arrives
FlushReply(b) ==
    /\ fpc[b] = "post"
    /\ \E reply \in TraceReplies : fl' = [fl EXCEPT ![b].reply = reply]
    /\ fpc' = [fpc EXCEPT ![b] = "replied"]
    /\ UNCHANGED <<notAgent, probe, tracerVars, connVars, buf, errors, poolFree, sent, sleepSecs,
                   storeVars, sweepVars>>

\* a Connector that forgets the failures it has counted when a send succeeds
FlushSucceededForgives(b) ==
    /\ fpc[b] = "replied"
    /\ TraceSuccess(fl[b].reply)
    /\ sent' = sent \cup RecordsIn(buf[b])
    /\ poolFree' = poolFree + 1
    /\ buf' = [buf EXCEPT ![b] = FreshBuffer]
    /\ fpc' = [fpc EXCEPT ![b] = "none"]
    /\ fl' = [fl EXCEPT ![b] = BlankFlush]
    /\ errors' = 0
    /\ UNCHANGED <<notAgent, probe, tracerVars, connVars, sleepSecs, storeVars, sweepVars>>

\* lines 142-165 when the send succeeded: the compressed buffer goes back to
\* the pool, nothing is written to the backup, the batch buffer is reset
FlushSucceeded(b) ==
    /\ fpc[b] = "replied"
    /\ TraceSuccess(fl[b].reply)
    /\ sent' = sent \cup RecordsIn(buf[b])
    /\ poolFree' = poolFree + 1
    /\ buf' = [buf EXCEPT ![b] = FreshBuffer]
    /\ fpc' = [fpc EXCEPT ![b] = "none"]
    /\ fl' = [fl EXCEPT ![b] = BlankFlush]
    /\ UNCHANGED <<notAgent, probe, tracerVars, connVars, errors, sleepSecs, storeVars, sweepVars>>

CountFailureUnbounded(e) == e + 1

\* line 146: the failure is counted, saturating at K
CountFailure(e) == Min(e + 1, K)

\* lines 144-149 when compressing or sending failed: the failure is counted
\* under the write lock and the compressed buffer goes back to the pool
FlushFailed(b) ==
    /\ \/ fpc[b] = "failed"
       \/ fpc[b] = "replied" /\ ~TraceSuccess(fl[b].reply)
    /\ errors' = CountFailure(errors)
    /\ poolFree' = poolFree + 1
    /\ fpc' = [fpc EXCEPT ![b] = "backup"]
    /\ UNCHANGED <<notAgent, probe, tracerVars, connVars, buf, fl, sent, sleepSecs, storeVars, sweepVars>>

BackupWriteNothing(content, data) == content

\* Backup::write
BackupWrite(content, data) == content \o data

\* lines 151-164: under the backup mutex the batch and a line feed are
\* written to the current file; then the batch buffer is reset
FlushBackup(b) ==
    /\ fpc[b] = "backup"
    /\ files' = [files EXCEPT
                   ![curPath] = BackupWrite(BackupWrite(@, buf[b]), <<NL>>)]
    /\ buf' = [buf EXCEPT ![b] = FreshBuffer]
    /\ fpc' = [fpc EXCEPT ![b] = "none"]
    /\ fl' = [fl EXCEPT ![b] = BlankFlush]
    /\ UNCHANGED <<notAgent, probe, tracerVars, connVars, errors, poolFree, sent, sleepSecs, curPath,
                   sweepVars>>

\* ------------------------------------------------------- Reconnector

NextSleepUncapped(s) == (s * 3) \div 2

\* Reconnector::handle line 316
NextSleep(s) == Min((s * 3) \div 2, MaxSleep)

ProbeOkNever(reply) == FALSE

\* Reconnector::handle lines 307-308: the reply is a response with status 204
ProbeOk(reply) == ~reply.err /\ reply.status = 204

\* Reconnector::handle after a sleep, while the Connector has not stopped it:
\* when disconnected, GET /health-check is sent and its reply arrives
Probe ==
    /\ cpc \in {"listen", "handle"}
    /\ probe = NoReply
    /\ Disconnected
    /\ \E reply \in HealthReplies : probe' = reply
    /\ UNCHANGED <<notAgent, tracerVars, connVars, flushVars, sleepSecs, storeVars, sweepVars>>

\* Reconnector::handle lines 308-318: on 204 the counter and the interval are
\* reset, otherwise the interval grows
ProbeDone ==
    /\ probe # NoReply
    /\ IF ProbeOk(probe)
         THEN /\ errors' = 0
              /\ sleepSecs' = InitialSleep
         ELSE /\ sleepSecs' = NextSleep(sleepSecs)
              /\ UNCHANGED errors
    /\ probe' = NoReply
    /\ UNCHANGED <<notAgent, tracerVars, connVars, buf, fpc, fl, poolFree, sent, storeVars,
                   sweepVars>>

\* ------------------------------------------------------- BackupSender

\* BackupSender::handle lines 62-63: the size that ends a file's turn, in
\* bytes (5 << 20), and the age that does, in seconds
RotateSize == 5242880
RotateSecs == 60

\* what fs::metadata may say of the current file (its length around the
\* limit) and the milliseconds elapsed since _last_backup_switch
SweepLens == {0, RotateSize - 1, RotateSize}
SweepAges == {0, RotateSecs * 1000 - 1, RotateSecs * 1000}

KeepCurrentAlways(meta, len, age) == TRUE

\* BackupSender::handle lines 61-63: the current file is kept
KeepCurrent(meta, len, age) == meta /\ len < RotateSize /\ age < RotateSecs * 1000

\* Backup::switch_backup
SwitchBackup ==
    LET n == ProbeNewPath(files, 0) IN
    /\ n >= 0
    /\ n < MaxFiles
    /\ curPath' = n

\* BackupSender::handle, one sweep.  Backup::upload visits the directory
\* entries while the latch is not set: the current file is skipped, a file
\* that cannot be opened exclusively is skipped, the others are POSTed to
\* /backup and those answered 204 are deleted (the set `gone`).  Then the
\* current file is switched unless it is small and recent.
Sweep ==
    /\ ~bstopped
    /\ \E gone \in SUBSET (DOMAIN files \ {curPath}) :
         /\ sent' = sent \cup UNION { RecordsIn(files[f]) : f \in gone }
         /\ \E keep \in {KeepCurrent(meta, len, age) :
                             meta \in BOOLEAN, len \in SweepLens, age \in SweepAges} :
              IF keep
                THEN /\ files' = [g \in DOMAIN files \ gone |-> files[g]]
                     /\ UNCHANGED curPath
                ELSE /\ SwitchBackup
                     /\ files' = [g \in (DOMAIN files \ gone) \cup {curPath'} |->
                                    IF g = curPath' THEN <<>> ELSE files[g]]
    /\ UNCHANGED <<notAgent, probe, tracerVars, connVars, buf, fpc, fl, errors, poolFree, sleepSecs,
                   bstopped>>

\* ------------------------------------------------------------ agent
NextAgent ==
    \/ Callback
    \/ \E r \in 1 .. MaxRecords : OverflowWrite(r)
    \/ Listen
    \/ ListenTimeout
    \/ Handle
    \/ AgentStop
    \/ Break
    \/ AfterAcquire
    \/ AfterJoin
    \/ \E b \in Buffers : FlushStart(b)
    \/ \E b \in Buffers : FlushCompress(b)
    \/ \E b \in Buffers : FlushReply(b)
    \/ \E b \in Buffers : FlushSucceeded(b)
    \/ \E b \in Buffers : FlushFailed(b)
    \/ \E b \in Buffers : FlushBackup(b)
    \/ Probe
    \/ ProbeDone
    \/ Sweep

\* ------------------------------------- Backup::upload, entry by entry

NoUpload == [file |-> -1, reply |-> NoReply]

\* no sweep has reached its rotation yet
NoRotation == [switched |-> FALSE, prev |-> -1, meta |-> TRUE, len |-> 0, age |-> 0]

UploadIdle ==
    /\ spc = "idle"
    /\ entries = {}
    /\ upl = NoUpload
    /\ canon = TRUE
    /\ panicked = FALSE
    /\ rot = NoRotation
    /\ elapsed = 0

\* _path is canonicalized (backup.rs line 44), the paths read_dir yields are
\* not: whether the two spellings of the current file are equal depends on
\* the configured directory
InitUpload ==
    /\ spc = "idle"
    /\ entries = {}
    /\ upl = NoUpload
    /\ canon \in BOOLEAN
    /\ panicked = FALSE
    /\ rot = NoRotation
    /\ elapsed = 0

\* upload line 106: entry.path() == backup._path
IsCurrentPath(f) == canon /\ f = curPath

\* a file that lets every open pass
HeldOpenNever(f) == FALSE

\* the agent keeps its current file open, created with FILE_SHARE_NONE:
\* opening it again fails with a sharing violation
HeldOpen(f) == f = curPath

\* a test that takes every response for an acknowledgement
UploadedAnyStatus(reply) == ~reply.err

\* upload lines 115-116: Ok(response) with status 204
Uploaded(reply) == ~reply.err /\ reply.status = 204

\* Module::stop on the BackupSender
SenderStop ==
    /\ ~bstopped
    /\ bstopped' = TRUE
    /\ UNCHANGED <<notAgent, tracerVars, connVars, flushVars, sleepSecs, storeVars, probe>>

\* BackupSender::handle starts Backup::upload: read_dir (an error ends the
\* upload at once)
UploadBegin ==
    /\ spc = "idle"
    /\ ~bstopped
    /\ \E listed \in BOOLEAN :
         IF listed THEN spc' = "visit" /\ entries' = DOMAIN files
                   ELSE spc' = "switch" /\ entries' = {}
    /\ UNCHANGED <<notUpload, upl, canon, panicked, rot, elapsed>>

\* one turn of the loop of upload, lines 102-113: the next entry while the
\* latch is not set; the current path is skipped; open_exclusively
UploadVisit(f) ==
    /\ spc = "visit"
    /\ ~bstopped
    /\ f \in entries
    /\ entries' = entries \ {f}
    /\ IF IsCurrentPath(f)
         THEN UNCHANGED <<spc, upl>>
         ELSE \E opened \in (IF HeldOpen(f) THEN {FALSE} ELSE BOOLEAN) :
                IF opened THEN spc' = "post" /\ upl' = [file |-> f, reply |-> NoReply]
                          ELSE UNCHANGED <<spc, upl>>
    /\ UNCHANGED <<notUpload, canon, panicked, rot, elapsed>>

\* upload line 114: the reply of POST /backup arrives
UploadReply ==
    /\ spc = "post"
    /\ \E reply \in BackupReplies : upl' = [upl EXCEPT !.reply = reply]
    /\ spc' = "replied"
    /\ UNCHANGED <<notUpload, entries, canon, panicked, rot, elapsed>>

\* upload lines 115-137: on 204 remove_file (its failure is only logged)
UploadDone ==
    /\ spc = "replied"
    /\ IF Uploaded(upl.reply)
         THEN /\ sent' = sent \cup RecordsIn(files[upl.file])
              /\ \E removed \in BOOLEAN :
                   files' = IF removed
                              THEN [g \in DOMAIN files \ {upl.file} |-> files[g]]
                              ELSE files
         ELSE UNCHANGED <<sent, files>>
    /\ upl' = NoUpload
    /\ spc' = "visit"
    /\ UNCHANGED <<notAgentUpload, entries, canon, panicked, rot, elapsed, tracerVars, connVars, buf, fpc, fl,
                   errors, poolFree, sleepSecs, curPath, bstopped, probe>>

\* the loop of upload ends: no entry is left, or the latch is set
UploadEnd ==
    /\ spc = "visit"
    /\ entries = {} \/ bstopped
    /\ spc' = "switch"
    /\ entries' = {}
    /\ UNCHANGED <<notUpload, upl, canon, panicked, rot, elapsed>>

\* the clock of _last_backup_switch.elapsed() moves on
TimePasses ==
    /\ \E later \in SweepAges : later > elapsed /\ elapsed' = later
    /\ UNCHANGED <<notUpload, spc, entries, upl, canon, panicked, rot>>

\* BackupSender::handle lines 59-70: under the backup mutex the current file
\* is kept when it is small and recent, and switched otherwise; a switch
\* restarts the clock
UploadSwitch ==
    /\ spc = "switch"
    /\ \E meta \in BOOLEAN, len \in SweepLens :
         /\ IF KeepCurrent(meta, len, elapsed)
              THEN UNCHANGED <<files, curPath, elapsed>>
              ELSE /\ SwitchBackup
                   /\ files' = [g \in DOMAIN files \cup {curPath'} |->
                                  IF g = curPath' THEN <<>> ELSE files[g]]
                   /\ elapsed' = 0
         /\ rot' = [switched |-> ~KeepCurrent(meta, len, elapsed), prev |-> curPath,
                    meta |-> meta, len |-> IF meta THEN len ELSE 0, age |-> elapsed]
    /\ spc' = "idle"
    /\ UNCHANGED <<notAgentUpload, entries, upl, canon, panicked, tracerVars, connVars, flushVars,
                   sleepSecs, bstopped, probe>>

\* ---------------------------------------------------------- gateway

PeerV4 == [v4 |-> TRUE,  octets |-> <<127, 0, 0, 1>>]
PeerV6 == [v4 |-> FALSE, octets |-> <<32, 1, 13, 184, 0, 0, 0, 0, 0, 0, 0, 0, 0, 0, 0, 1>>]
\* 127.0.0.1, 2001:db8::1, 255.255.255.255 and ::127.0.0.1 (an IPv6 address
\* whose 128 bits equal those of the widened 127.0.0.1)
Peers == {PeerV4, PeerV6,
          [v4 |-> TRUE,  octets |-> <<255, 255, 255, 255>>],
          [v4 |-> FALSE, octets |-> <<0, 0, 0, 0, 0, 0, 0, 0, 0, 0, 0, 0, 127, 0, 0, 1>>]}

Zeros(n) == [i \in 1 .. n |-> 0]

\* an IPv4 address widened into the high 32 bits
IpBeBytesHigh(ip) == IF ip.v4 THEN ip.octets \o Zeros(12) ELSE ip.octets

\* u128::from(ipv4.to_bits()) or ipv6.to_bits(), then to_be_bytes()
IpBeBytes(ip) == IF ip.v4 THEN Zeros(12) \o ip.octets ELSE ip.octets

\* utils::append_client_ip (routes/backup.rs has the same three statements)
AppendClientIp(buf0, ip) == buf0 \o IpBeBytes(ip) \o <<IF ip.v4 THEN 1 ELSE 0>>

\* byte strings of at most n bytes over an alphabet
RECURSIVE BytesUpTo(_, _)
BytesUpTo(alphabet, n) ==
    IF n = 0 THEN {<<>>}
    ELSE LET shorter == BytesUpTo(alphabet, n - 1)
         IN shorter \cup { Append(x, c) : x \in shorter, c \in alphabet }

GatewayIdle ==
    /\ route = "/trace"
    /\ peer = PeerV4
    /\ rabbitmq = TRUE
    /\ stream = <<>>
    /\ corrupt = FALSE
    /\ chained = TRUE
    /\ gpc = "done"
    /\ buffer = <<>>
    /\ response = 0
    /\ queue = <<>>
    /\ publishFailed = FALSE
    /\ request = <<>>

\* a POST request has arrived: its route, its peer, its body, and whether
\* the broker channel could be initialised
InitGateway ==
    /\ route \in {"/trace", "/backup"}
    /\ peer \in Peers
    /\ rabbitmq \in BOOLEAN
    /\ request \in BytesUpTo({NL, 1, 2}, MaxBody)
    /\ stream = request
    /\ corrupt \in BOOLEAN
    /\ chained = FALSE
    /\ gpc = "serve"
    /\ buffer = <<>>
    /\ response = 0
    /\ queue = <<>>
    /\ publishFailed = FALSE

\* TraceService::serve: the publisher task is spawned and the handler
\* answers 200 with TraceResponse {} at once
TraceServe ==
    /\ gpc = "serve"
    /\ route = "/trace"
    /\ response' = 200
    /\ gpc' = "spawned"
    /\ UNCHANGED <<notGateway, route, peer, rabbitmq, stream, corrupt, chained, buffer,
                   queue, publishFailed, request>>

\* the spawned task of TraceService::serve starts: app.rabbitmq()
TraceTask ==
    /\ gpc = "spawned"
    /\ gpc' = IF rabbitmq THEN "read" ELSE "done"
    /\ UNCHANGED <<notGateway, route, peer, rabbitmq, stream, corrupt, chained, buffer,
                   response, queue, publishFailed, request>>

\* BackupService::serve starts: app.rabbitmq(), 503 when it is None
BackupServe ==
    /\ gpc = "serve"
    /\ route = "/backup"
    /\ IF rabbitmq
         THEN gpc' = "read" /\ UNCHANGED response
         ELSE gpc' = "done" /\ response' = 503
    /\ UNCHANGED <<notGateway, route, peer, rabbitmq, stream, corrupt, chained, buffer,
                   queue, publishFailed, request>>

\* what the read loop does when basic_publish returns an error: /backup
\* returns 503, /trace logs and goes on
StopsOnPublishError(r) == r = "/backup"

\* one turn of `while let Ok(byte) = chained.read_u8().await`, on a byte
ReadByte ==
    /\ gpc = "read"
    /\ stream # <<>> \/ (~corrupt /\ ~chained)
    /\ LET byte == IF stream # <<>> THEN Head(stream) ELSE NL IN
       /\ IF stream # <<>>
            THEN stream' = Tail(stream) /\ UNCHANGED chained
            ELSE chained' = TRUE /\ UNCHANGED stream
       /\ IF byte # NL
            THEN /\ buffer' = Append(buffer, byte)
                 /\ UNCHANGED <<gpc, response, queue, publishFailed>>
            ELSE IF buffer = <<>>
            THEN UNCHANGED <<buffer, gpc, response, queue, publishFailed>>
            ELSE \E published \in BOOLEAN :
                   IF published
                     THEN /\ queue' = Append(queue, AppendClientIp(buffer, peer))
                          /\ buffer' = <<>>
                          /\ UNCHANGED <<gpc, response, publishFailed>>
                     ELSE /\ publishFailed' = TRUE
                          /\ UNCHANGED queue
                          /\ IF StopsOnPublishError(route)
                               THEN /\ response' = 503
                                    /\ gpc' = "done"
                                    /\ buffer' = AppendClientIp(buffer, peer)
                               ELSE /\ buffer' = <<>>
                                    /\ UNCHANGED <<gpc, response>>
    /\ UNCHANGED <<notGateway, route, peer, rabbitmq, corrupt, request>>

\* read_u8 returns Err: the chained reader is at its end, or the body
\* stream failed (it is then never followed by the chained "\n"); the loop
\* is left and /backup answers 204
ReadEnd ==
    /\ gpc = "read"
    /\ stream = <<>>
    /\ corrupt \/ chained
    /\ gpc' = "done"
    /\ response' = IF route = "/backup" THEN 204 ELSE response
    /\ UNCHANGED <<notGateway, route, peer, rabbitmq, stream, corrupt, chained, buffer,
                   queue, publishFailed, request>>

NextGateway ==
    \/ TraceServe
    \/ TraceTask
    \/ BackupServe
    \/ ReadByte
    \/ ReadEnd

\* -------------------------------------------------------- forwarder

Msgs == 1 .. MaxMsgs

\* the body of message m as the gateway published it from peer 127.0.0.1:
\* an envelope, or, for a poison message, bytes that are not an envelope
\* (here a JSON array holding the envelope)
MsgBody(m) ==
    AppendClientIp(IF m \in poison THEN <<LBRACKET>> \o Serialize(m) \o <<RBRACKET>>
                                   ELSE Serialize(m), PeerV4)

\* process, lines 63-78: the flag is popped, the last 16 bytes are the
\* address (its low 32 bits when the flag is not 0), the rest is the data
DecodeTrailer(body) ==
    LET flag  == body[Len(body)]
        rest  == SubSeq(body, 1, Len(body) - 1)
        bytes == SubSeq(rest, Len(rest) - 15, Len(rest))
    IN [data |-> SubSeq(rest, 1, Len(rest) - 16),
        ip   |-> IF flag # 0 THEN [v4 |-> TRUE, octets |-> SubSeq(bytes, 13, 16)]
                             ELSE [v4 |-> FALSE, octets |-> bytes]]

\* serde_json::from_slice::<CapturedEventRecord>: the record, or 0 for Err
ParseRecord(data) ==
    IF Len(data) = 3 /\ data[1] = LBRACE /\ data[3] = RBRACE THEN data[2] ELSE 0

\* the framing line and the ECS document of a record
BulkLines(r, ip) == [doc |-> r, ip |-> ip]

NoBulk == [outcome |-> "none", docs |-> {}]

ForwarderIdle ==
    /\ poison = {}
    /\ elastic = TRUE
    /\ ready = <<>>
    /\ unacked = <<>>
    /\ nextTag = 1
    /\ settled = {}
    /\ requeued = {}
    /\ fwBody = <<>>
    /\ acker = 0
    /\ indexed = {}
    /\ bulk = NoBulk

\* the queue holds MaxMsgs messages, some of them poison; the index client
\* could be initialised or not
InitForwarder ==
    /\ poison \in SUBSET Msgs
    /\ elastic \in BOOLEAN
    /\ ready = [i \in 1 .. MaxMsgs |-> i]
    /\ unacked = <<>>
    /\ nextTag = 1
    /\ settled = {}
    /\ requeued = {}
    /\ fwBody = <<>>
    /\ acker = 0
    /\ indexed = {}
    /\ bulk = NoBulk

UpTo(un, tag) == { t \in DOMAIN un : t <= tag }
Without(un, tags) == [t \in DOMAIN un \ tags |-> un[t]]

\* the messages of a set of tags, in the order of their tags
RECURSIVE InTagOrder(_, _)
InTagOrder(un, tags) ==
    IF tags = {} THEN <<>>
    ELSE LET t == CHOOSE x \in tags : \A y \in tags : x <= y
         IN <<un[t]>> \o InTagOrder(un, tags \ {t})

\* MessageForwarder::_ack: basic.ack with multiple = true on the pending
\* acker; the broker settles every unsettled delivery up to its tag
Ack(pending, un, queued) ==
    /\ acker' = 0
    /\ ready' = queued
    /\ IF pending = 0
         THEN unacked' = un /\ UNCHANGED <<settled, requeued>>
         ELSE /\ settled' = settled \cup { un[t] : t \in UpTo(un, pending) }
              /\ unacked' = Without(un, UpTo(un, pending))
              /\ UNCHANGED requeued

\* MessageForwarder::_nack: basic.nack with multiple = true, requeue = true;
\* the broker puts every unsettled delivery up to the tag back in the queue
Nack(pending, un, queued) ==
    /\ acker' = 0
    /\ IF pending = 0
         THEN unacked' = un /\ ready' = queued /\ UNCHANGED <<settled, requeued>>
         ELSE /\ ready' = InTagOrder(un, UpTo(un, pending)) \o queued
              /\ requeued' = requeued \cup { un[t] : t \in UpTo(un, pending) }
              /\ unacked' = Without(un, UpTo(un, pending))
              /\ UNCHANGED settled

\* what sending the bulk request can give: send() is Ok for every HTTP
\* response, whatever its status (compare elastic.rs, _log_error), and Err
\* for a transport error
BulkOutcomes == {"indexed", "rejected", "transport_error"}

\* process, lines 117-124: `Ok(_)` of send()
SendIsOk(outcome) == outcome \in {"indexed", "rejected"}

DocsOf(docs) == { docs[i].doc : i \in 1 .. Len(docs) }

\* process, lines 103-131: the body is swapped out and sent; ack or nack
FlushBulk(docs, pending, un, queued) ==
    /\ fwBody' = <<>>
    /\ IF elastic
         THEN \E outcome \in BulkOutcomes :
                /\ bulk' = [outcome |-> outcome, docs |-> DocsOf(docs)]
                /\ indexed' = IF outcome = "indexed" THEN indexed \cup DocsOf(docs)
                                                      ELSE indexed
                /\ IF SendIsOk(outcome)
                     THEN Ack(pending, un, queued)
                     ELSE Nack(pending, un, queued)
         ELSE /\ bulk' = [outcome |-> "unavailable", docs |-> DocsOf(docs)]
              /\ UNCHANGED indexed
              /\ Nack(pending, un, queued)

\* the rest of process when nothing is pushed to the index
KeepBody(docs, pending, un, queued) ==
    /\ fwBody' = docs
    /\ acker' = pending
    /\ unacked' = un
    /\ ready' = queued
    /\ bulk' = NoBulk
    /\ UNCHANGED <<settled, requeued, indexed>>

\* the consumer hands the next delivery to MessageForwarder::process
ProcessDelivery ==
    /\ ready # <<>>
    /\ Cardinality(DOMAIN unacked) < Prefetch
    /\ nextTag <= MaxDeliveries
    /\ nextTag' = nextTag + 1
    /\ LET m       == Head(ready)
           un      == (nextTag :> m) @@ unacked
           decoded == DecodeTrailer(MsgBody(m))
           r       == ParseRecord(decoded.data)
           docs    == IF r # 0 THEN Append(fwBody, BulkLines(r, decoded.ip)) ELSE fwBody
       IN IF r # 0 /\ Len(docs) >= FwFlushLimit /\ docs # <<>>
            THEN FlushBulk(docs, nextTag, un, Tail(ready))
            ELSE KeepBody(docs, nextTag, un, Tail(ready))
    /\ UNCHANGED <<notForwarder, poison, elastic>>

\* no delivery within the idle timeout: process(None)
ProcessTimeout ==
    /\ IF fwBody # <<>>
         THEN FlushBulk(fwBody, acker, unacked, ready)
         ELSE KeepBody(fwBody, acker, unacked, ready)
    /\ UNCHANGED <<notForwarder, poison, elastic, nextTag>>

NextForwarder ==
    \/ ProcessDelivery
    \/ ProcessTimeout

\* ------------------------------------------ BackupSender while offline

\* BackupSender::handle when no upload of the sweep succeeds (no file is
\* removed) and the rotation is due: switch_backup, whose probe of the
\* names panics when backup-0.zst .. backup-999.zst all exist
SweepOffline ==
    /\ ~bstopped
    /\ ~panicked
    /\ spc = "idle"
    /\ LET n == ProbeNewPath(files, 0) IN
       IF n < 0
         THEN /\ panicked' = TRUE
              /\ UNCHANGED <<files, curPath>>
         ELSE /\ curPath' = n
              /\ files' = [g \in DOMAIN files \cup {n} |-> IF g = n THEN <<>> ELSE files[g]]
              /\ UNCHANGED panicked
    /\ UNCHANGED <<notAgentUpload, spc, entries, upl, canon, rot, elapsed, tracerVars, connVars, flushVars,
                   sleepSecs, bstopped, probe>>

\* ---------------------------------------------------- OnceCellNoRetry

Callers == 1 .. NCallers

Outside == [pc |-> "out", result |-> "pending"]

CellIdle ==
    /\ initializing = FALSE
    /\ initialized = FALSE
    /\ callers = [c \in Callers |-> Outside]
    /\ attempts = <<>>

\* OnceCellNoRetry::new, and NCallers tasks that will call get_or_try_init
InitCell ==
    /\ initializing = FALSE
    /\ initialized = FALSE
    /\ callers = [c \in Callers |-> Outside]
    /\ attempts = <<>>

At(c, pc, result) == [callers EXCEPT ![c] = [pc |-> pc, result |-> result]]

\* get_or_try_init lines 63-65: the load of _initialized
CellLoad(c) ==
    /\ callers[c].pc = "out"
    /\ callers' = IF initialized THEN At(c, "done", "value") ELSE At(c, "cas", "pending")
    /\ UNCHANGED <<notCell, initializing, initialized,
                   attempts>>

\* lines 67-75 and 85: compare_exchange(false, true) on _initializing; on
\* success the guard is made and the initializer starts, on failure the
\* caller goes on to create its Notified future
CellCas(c) ==
    /\ callers[c].pc = "cas"
    /\ IF initializing
         THEN callers' = At(c, "register", "pending") /\ UNCHANGED initializing
         ELSE callers' = At(c, "init", "pending") /\ initializing' = TRUE
    /\ UNCHANGED <<notCell, initialized, attempts>>

\* lines 76-83: f().await ends; on Ok the value is written and _initialized
\* is stored
CellInitEnds(c) ==
    /\ callers[c].pc = "init"
    /\ \E ok \in BOOLEAN :
         IF ok THEN /\ initialized' = TRUE
                    /\ attempts' = Append(attempts, "ok")
                    /\ callers' = At(c, "drop", "value")
               ELSE /\ attempts' = Append(attempts, "failed")
                    /\ callers' = At(c, "drop", "none")
                    /\ UNCHANGED initialized
    /\ UNCHANGED <<notCell, initializing>>

\* _DropGuard::drop line 13: _initializing.store(false)
CellGuardStore(c) ==
    /\ callers[c].pc = "drop"
    /\ initializing' = FALSE
    /\ callers' = At(c, "notify", callers[c].result)
    /\ UNCHANGED <<notCell, initialized, attempts>>

\* _DropGuard::drop line 14: notify_waiters wakes the Notified futures that
\* exist at this moment, and only those
CellGuardNotify(c) ==
    /\ callers[c].pc = "notify"
    /\ callers' = [d \in Callers |->
                     IF d = c THEN [pc |-> "done", result |-> callers[c].result]
                     ELSE IF callers[d].pc = "wait" THEN [pc |-> "woken", result |-> "pending"]
                     ELSE callers[d]]
    /\ UNCHANGED <<notCell, initializing, initialized,
                   attempts>>

\* line 86: self._waiter.notified() creates the future, which is then awaited
CellRegister(c) ==
    /\ callers[c].pc = "register"
    /\ callers' = At(c, "wait", "pending")
    /\ UNCHANGED <<notCell, initializing, initialized,
                   attempts>>

\* lines 87-91: the woken waiter loads _initialized
CellWoken(c) ==
    /\ callers[c].pc = "woken"
    /\ callers' = At(c, "done", IF initialized THEN "value" ELSE "none")
    /\ UNCHANGED <<notCell, initializing, initialized,
                   attempts>>

NextCell ==
    \/ \E c \in Callers : CellLoad(c)
    \/ \E c \in Callers : CellCas(c)
    \/ \E c \in Callers : CellInitEnds(c)
    \/ \E c \in Callers : CellGuardStore(c)
    \/ \E c \in Callers : CellGuardNotify(c)
    \/ \E c \in Callers : CellRegister(c)
    \/ \E c \in Callers : CellWoken(c)

\* ------------------------------------------------------- Module::run

\* a module whose run has not been called
ModuleIdle ==
    /\ mpc = "before"
    /\ latch = FALSE
    /\ stops = 0
    /\ turns = 0
    /\ further = 0
    /\ hooks = 0
    /\ mres = "none"

\* Module::stop lines 63-70: SetOnce::set; on a latch that is already set it
\* returns an error, which is logged
Stop ==
    /\ stops < MaxStops
    /\ stops' = stops + 1
    /\ latch' = TRUE
    /\ UNCHANGED <<notModule, mpc, turns, further, hooks, mres>>

\* Module::run lines 34-38: before_hook; its error is returned
RunBeforeHook ==
    /\ mpc = "before"
    /\ \E ok \in BOOLEAN :
         IF ok THEN mpc' = "while" /\ UNCHANGED mres
               ELSE mpc' = "returned" /\ mres' = "err"
    /\ UNCHANGED <<notModule, latch, stops, turns, further, hooks>>

\* line 41: while self.stopped().get().is_none()
RunWhile ==
    /\ mpc = "while"
    /\ mpc' = IF latch THEN "after" ELSE "select"
    /\ UNCHANGED <<notModule, latch, stops, turns, further, hooks, mres>>

\* lines 43-47: the biased select; stopped.wait() is polled first and breaks
\* the loop, otherwise listen() returns an event (at most MaxTurns events
\* arrive, then listen stays pending)
RunSelect ==
    /\ mpc = "select"
    /\ latch \/ turns < MaxTurns
    /\ mpc' = IF latch THEN "after" ELSE "event"
    /\ UNCHANGED <<notModule, latch, stops, turns, further, hooks, mres>>

\* line 50: handle(event) is called
RunHandle ==
    /\ mpc = "event"
    /\ mpc' = "handle"
    /\ turns' = turns + 1
    /\ further' = IF latch THEN further + 1 ELSE further
    /\ UNCHANGED <<notModule, latch, stops, hooks, mres>>

\* line 50: handle(event).await? : on Err run returns the error at once
RunHandleReturns ==
    /\ mpc = "handle"
    /\ \E ok \in BOOLEAN :
         IF ok THEN mpc' = "while" /\ UNCHANGED mres
               ELSE mpc' = "returned" /\ mres' = "err"
    /\ UNCHANGED <<notModule, latch, stops, turns, further, hooks>>

\* an exit that does not run after_hook
RunAfterHookSkipped ==
    /\ mpc = "after"
    /\ mpc' = "returned"
    /\ mres' = "ok"
    /\ UNCHANGED <<notModule, latch, stops, turns, further, hooks>>

\* lines 53-60: after_hook runs and run returns its result
RunAfterHook ==
    /\ mpc = "after"
    /\ hooks' = hooks + 1
    /\ mpc' = "returned"
    /\ \E ok \in BOOLEAN : mres' = IF ok THEN "ok" ELSE "err"
    /\ UNCHANGED <<notModule, latch, stops, turns, further>>

\* the steps of run
RunStep ==
    \/ RunBeforeHook
    \/ RunWhile
    \/ RunSelect
    \/ RunHandle
    \/ RunHandleReturns
    \/ RunAfterHook

NextModule == Stop \/ RunStep

\* ---------------------------------------- CapturedEventRecord::to_ecs

\* the variants of EventData and the values of Event::opcode (u8)
Variants == {"FileCreate", "FileOperation", "Image", "Process", "Registry", "TcpIp", "UdpIp"}
Opcodes == 0 .. 255

NoDoc == [action |-> "", category |-> "", type |-> ""]

EcsIdle ==
    /\ ev = [variant |-> "Process", opcode |-> 1]
    /\ doc = NoDoc

\* a record of any variant with any opcode, not yet projected
InitEvents ==
    /\ ev \in [variant : Variants, opcode : Opcodes]
    /\ doc = NoDoc

\* to_ecs lines 196-407: event.action, event.category and event.type, set
\* by the match on the variant and, inside its arm, on the opcode
ToEcs(variant, opcode) ==
    CASE variant = "FileCreate" ->
           [action |-> "file-create", category |-> "file", type |-> "creation"]
      [] variant = "FileOperation" ->
           [action |-> CASE opcode = 69 -> "file-set-info"
                         [] opcode = 70 -> "file-delete"
                         [] opcode = 71 -> "file-rename"
                         [] opcode = 74 -> "file-query-info"
                         [] opcode = 75 -> "file-system-control"
                         [] OTHER -> "file-unknown",
            category |-> "file", type |-> "creation"]
      [] variant = "Image" ->
           [action |-> CASE opcode = 2 -> "image-unload"
                         [] opcode = 10 -> "image-load"
                         [] OTHER -> "image-unknown",
            category |-> "library",
            type |-> CASE opcode = 2 -> "end"
                       [] opcode = 10 -> "start"
                       [] OTHER -> "info"]
      [] variant = "Process" ->
           [action |-> CASE opcode = 1 -> "process-start"
                         [] opcode = 2 -> "process-end"
                         [] OTHER -> "process-unknown",
            category |-> "process",
            type |-> CASE opcode = 1 -> "start"
                       [] opcode = 2 -> "end"
                       [] OTHER -> "info"]
      [] variant = "Registry" ->
           [action |-> CASE opcode \in {10, 22} -> "registry-create-key"
                         [] opcode \in {12, 23} -> "registry-delete-key"
                         [] opcode = 14 -> "registry-set-value"
                         [] opcode = 15 -> "registry-delete-value"
                         [] opcode = 20 -> "registry-set-info"
                         [] opcode = 21 -> "registry-flush-key"
                         [] OTHER -> "registry-unknown",
            category |-> "registry",
            type |-> CASE opcode \in {10, 22} -> "creation"
                       [] opcode \in {12, 15, 23} -> "deletion"
                       [] opcode \in {14, 20, 21} -> "change"
                       [] OTHER -> "info"]
      [] variant \in {"TcpIp", "UdpIp"} ->
           [action |-> CASE opcode = 10 -> "udp-send"
                         [] opcode = 11 -> "udp-receive"
                         [] opcode = 12 -> "tcp-connect"
                         [] opcode = 13 -> "tcp-disconnect"
                         [] opcode = 15 -> "tcp-accept"
                         [] OTHER -> "tcp-udp-unknown",
            category |-> "network", type |-> "connection"]

\* to_ecs: the document of the record is built and returned
Project ==
    /\ doc = NoDoc
    /\ doc' = ToEcs(ev.variant, ev.opcode)
    /\ UNCHANGED <<notEcs, ev>>

\* -------------------------------------------------- windows_timestamp

\* An i64 does not fit a model integer: a magnitude is written as its ten
\* base-100 digits, most significant first.
Limbs == 10
ZeroLimbs == [i \in 1 .. Limbs |-> 0]

RECURSIVE Pow100(_)
Pow100(k) == IF k = 0 THEN 1 ELSE 100 * Pow100(k - 1)

\* the digits of a model integer
FromInt(n) == [i \in 1 .. Limbs |-> IF Limbs - i > 4 THEN 0 ELSE (n \div Pow100(Limbs - i)) % 100]

\* the model integer of digits that fit one
RECURSIVE ToInt(_, _, _)
ToInt(x, i, acc) == IF i > Limbs THEN acc ELSE ToInt(x, i + 1, acc * 100 + x[i])

\* x <= y on digits
LimbsLeq(x, y) ==
    \/ x = y
    \/ \E i \in 1 .. Limbs : x[i] < y[i] /\ \A j \in 1 .. i - 1 : x[j] = y[j]

\* integer division of digits by a small divisor: quotient and remainder
RECURSIVE DivLimbs(_, _, _, _)
DivLimbs(x, d, i, acc) ==
    IF i > Limbs THEN acc
    ELSE LET cur == acc.r * 100 + x[i]
         IN  DivLimbs(x, d, i + 1, [q |-> Append(acc.q, cur \div d), r |-> cur % d])

DivSmall(x, d) == DivLimbs(x, d, 1, [q |-> <<>>, r |-> 0])

\* i64::MAX = 9223372036854775807 and the magnitude of i64::MIN
MaxI64 == <<9, 22, 33, 72, 3, 68, 54, 77, 58, 7>>
MinI64 == <<9, 22, 33, 72, 3, 68, 54, 77, 58, 8>>

\* the values of raw_timestamp tried: their high twelve and low eight
\* decimal digits
TickHighs ==
    { <<0, 0, 0, 0, 0, 0>>, <<0, 0, 0, 0, 0, 1>>, <<0, 0, 0, 0, 86, 39>>,
      <<0, 0, 0, 0, 86, 40>>, <<0, 13, 19, 99, 99, 99>>, <<0, 13, 20, 0, 0, 0>>,
      <<0, 13, 22, 23, 10, 40>>, <<9, 22, 33, 72, 3, 68>> }
TickLows ==
    { <<0, 0, 0, 0>>, <<0, 0, 0, 1>>, <<0, 0, 0, 99>>, <<9, 99, 99, 99>>,
      <<10, 0, 0, 0>>, <<10, 0, 0, 1>>, <<54, 77, 58, 7>>, <<54, 77, 58, 8>>,
      <<99, 99, 99, 99>> }

\* the i64 values among them
TickInputs ==
    { t \in [neg : BOOLEAN, mag : {h \o l : h \in TickHighs, l \in TickLows}] :
        /\ LimbsLeq(t.mag, IF t.neg THEN MinI64 ELSE MaxI64)
        /\ ~(t.neg /\ t.mag = ZeroLimbs) }

\* a DateTime<Utc>: whole days since BASE (1601-01-01T00:00:00Z), the
\* second of the day and the nanosecond of the second
NoStamp == [days |-> 0, sod |-> 0, nanos |-> -1]
\* (the Unix epoch, 134 774 days after it)
BaseUnixEpoch == [days |-> 134774, sod |-> 0, nanos |-> 0]
BASE == [days |-> 0, sod |-> 0, nanos |-> 0]

\* DateTime + Duration: the carry of nanoseconds into seconds and of
\* seconds into days
Carried(days, sod, nanos) ==
    LET s == sod + (nanos \div 1000000000)
    IN  [days |-> days + (s \div 86400), sod |-> s % 86400, nanos |-> nanos % 1000000000]

\* DateTime + Duration::seconds(secs), secs given by sign and digits
AddSeconds(t, neg, secs) ==
    LET dv == DivSmall(secs, 86400)
        d == ToInt(dv.q, 1, 0)
    IN  IF neg THEN Carried(t.days - d, t.sod - dv.r, t.nanos)
        ELSE Carried(t.days + d, t.sod + dv.r, t.nanos)

\* DateTime + Duration::nanoseconds(nsecs), |nsecs| < 10^9
AddNanoseconds(t, neg, nsecs) ==
    Carried(t.days, t.sod, IF neg THEN t.nanos - nsecs ELSE t.nanos + nsecs)

\* _windows_timestamp::<NSECS>(value); the division and the remainder of
\* i64 truncate toward zero and keep the sign of value
WindowsTimestampOf(NSECS, value) ==
    LET dv == DivSmall(value.mag, 10000000)
        secs == dv.q
        nsecs == IF NSECS THEN dv.r * 100 ELSE 0
    IN  AddNanoseconds(AddSeconds(BASE, value.neg, secs), value.neg, nsecs)

WindowsTimestampRounded(value) == WindowsTimestampOf(FALSE, value)
WindowsTimestamp(value) == WindowsTimestampOf(TRUE, value)

\* the six fields of the RFC 3339 text of a DateTime<Utc>, by the
\* proleptic Gregorian calendar (BASE opens a 400-year cycle)
MonthLengths(leap) == <<31, IF leap THEN 29 ELSE 28, 31, 30, 31, 30, 31, 31, 30, 31, 30, 31>>

RECURSIVE MonthDay(_, _, _)
MonthDay(lens, m, d) == IF d < lens[m] THEN [month |-> m, day |-> d + 1] ELSE MonthDay(lens, m + 1, d - lens[m])

Rfc3339(t) ==
    LET n400 == t.days \div 146097
        d0 == t.days % 146097
        n100 == Min(d0 \div 36524, 3)
        d1 == d0 - n100 * 36524
        n4 == d1 \div 1461
        d2 == d1 % 1461
        n1 == Min(d2 \div 365, 3)
        d3 == d2 - n1 * 365
        leap == n1 = 3 /\ (n4 # 24 \/ n100 = 3)
        md == MonthDay(MonthLengths(leap), 1, d3)
    IN  [year |-> 1601 + 400 * n400 + 100 * n100 + 4 * n4 + n1,
         month |-> md.month, day |-> md.day,
         hour |-> t.sod \div 3600, minute |-> (t.sod % 3600) \div 60, second |-> t.sod % 60,
         nanos |-> t.nanos]

ClockIdle == tick = [neg |-> FALSE, mag |-> ZeroLimbs] /\ stamp = NoStamp

\* any raw_timestamp, not yet converted
InitTicks == tick \in TickInputs /\ stamp = NoStamp

\* to_ecs line 190: ECS::new(windows_timestamp(self.event.raw_timestamp))
Convert ==
    /\ stamp = NoStamp
    /\ stamp' = WindowsTimestamp(tick)
    /\ UNCHANGED <<notClock, tick>>

\* ------------------------------------- the locks and the tasks that take them

\* the tasks of the agent that take a lock: the Connector's run loop, the
\* Reconnector, a task spawned for a record the channel refused, the
\* BackupSender, and the task spawned for the flush of each batch buffer
LockTasks ==
    {<<"connector", 0>>, <<"reconnector", 0>>, <<"overflow", 0>>, <<"sender", 0>>}
        \cup {<<"flush", b>> : b \in Buffers}

\* Connector::_errors_count, the Mutex<Backup>, the mutex of each batch
\* buffer and BackupSender::_last_backup_switch
ErrorsLock == <<"errors", 0>>
BackupLock == <<"backup", 0>>
TimerLock == <<"timer", 0>>
BatchLock(b) == <<"batch", b>>
Locks == {ErrorsLock, BackupLock, TimerLock} \cup {BatchLock(b) : b \in Buffers}

TaskAt(pc, b) == [pc |-> pc, b |-> b]

\* every task at rest, every lock free; the Connector is at buffer 0
LocksIdle ==
    /\ lpc = [t \in LockTasks |->
                IF t[1] = "connector" THEN TaskAt("idle", 0)
                ELSE IF t[1] = "flush" THEN TaskAt("none", t[2])
                ELSE TaskAt("idle", 0)]
    /\ holders = [l \in Locks |-> {}]

\* a guard of lock l is created for task t, and dropped
Acquire(h, t, l) == [h EXCEPT ![l] = @ \cup {t}]

ReleaseNothing(h, t, l) == h

Release(h, t, l) == [h EXCEPT ![l] = @ \ {t}]

\* RwLock::write is granted when nobody holds the lock; RwLock::read when
\* no writer holds it and no writer waits for it (the lock serves its
\* waiters in order of arrival, so a reader that comes after a waiting
\* writer waits behind it); a Mutex when it is free
Writing(t) == lpc[t].pc \in {"count", "zero"}
WantsWrite(t) == lpc[t].pc \in {"failed", "ok"}
CanReadNever(l) == FALSE

CanRead(l) ==
    /\ \A u \in holders[l] : ~Writing(u)
    /\ \A u \in LockTasks : ~WantsWrite(u)
Free(l) == holders[l] = {}

Goto(t, pc) == lpc' = [lpc EXCEPT ![t] = TaskAt(pc, @.b)]

\* Connector::handle and the loop of Connector::after_hook: the guard of
\* the buffer is taken with lock_owned; it is dropped when handle returns,
\* or moved into the task spawned for _send_payload_utils
ConnectorLocks ==
    LET t == <<"connector", 0>>
        b == lpc[t].b
    IN  /\ UNCHANGED notLocks
        /\ \/ /\ lpc[t].pc = "idle"
              /\ Free(BatchLock(b))
              /\ holders' = Acquire(holders, t, BatchLock(b))
              /\ Goto(t, "guard")
           \/ /\ lpc[t].pc = "guard"
              /\ holders' = Release(holders, t, BatchLock(b))
              /\ Goto(t, "idle")
           \/ /\ lpc[t].pc = "guard"
              /\ holders' = Acquire(Release(holders, t, BatchLock(b)), <<"flush", b>>, BatchLock(b))
              /\ lpc' = [lpc EXCEPT ![t] = TaskAt("idle", (b + 1) % K),
                                    ![<<"flush", b>>] = TaskAt("start", b)]

\* the flush task of buffer b acquires from the compressed-buffer pool as
\* caller b + 1 of the pool
PoolCallerOf(b) == b + 1

\* Connector::_send_payload_utils, which owns the guard of its buffer from
\* its first line to its last
SendPayloadLocks(b) ==
    LET t == <<"flush", b>>
        c == PoolCallerOf(b)
    IN  /\ UNCHANGED notLocks
        /\ \/ \* lines 88-90: a fresh buffer, nothing to send
              /\ lpc[t].pc = "start"
              /\ holders' = Release(holders, t, BatchLock(b))
              /\ Goto(t, "none")
           \/ \* line 95: _disconnected() reads errors
              /\ lpc[t].pc = "start"
              /\ CanRead(ErrorsLock)
              /\ holders' = Acquire(holders, t, ErrorsLock)
              /\ Goto(t, "gate")
           \/ /\ lpc[t].pc = "gate"
              /\ holders' = Release(holders, t, ErrorsLock)
              /\ \E disconnected \in BOOLEAN :
                   Goto(t, IF disconnected THEN "store" ELSE "send")
           \/ \* lines 102-142: with a buffer of the pool, compression and
              \* POST /trace
              /\ lpc[t].pc = "send"
              /\ ptask[c].pc = "holding"
              /\ \E success \in BOOLEAN :
                   Goto(t, IF success THEN "release" ELSE "failed")
              /\ UNCHANGED holders
           \/ \* lines 144-148: the failure is counted under the write lock
              /\ lpc[t].pc = "failed"
              /\ Free(ErrorsLock)
              /\ holders' = Acquire(holders, t, ErrorsLock)
              /\ Goto(t, "count")
           \/ /\ lpc[t].pc = "count"
              /\ holders' = Release(holders, t, ErrorsLock)
              /\ Goto(t, "spill")
           \/ \* line 149: the block ends, the buffer of the pool has been
              \* given back
              /\ lpc[t].pc \in {"release", "spill"}
              /\ ptask[c].pc = "idle"
              /\ Goto(t, IF lpc[t].pc = "release" THEN "reset" ELSE "store")
              /\ UNCHANGED holders
           \/ \* lines 151-161: the batch is written under the backup mutex
              /\ lpc[t].pc = "store"
              /\ Free(BackupLock)
              /\ holders' = Acquire(holders, t, BackupLock)
              /\ Goto(t, "write")
           \/ /\ lpc[t].pc = "write"
              /\ holders' = Release(holders, t, BackupLock)
              /\ Goto(t, "reset")
           \/ \* lines 163-165: the buffer is reset and its guard dropped
              /\ lpc[t].pc = "reset"
              /\ holders' = Release(holders, t, BatchLock(b))
              /\ Goto(t, "none")

\* Reconnector::handle: _disconnected() reads errors; after a 204 errors
\* is written
ReconnectorLocks ==
    LET t == <<"reconnector", 0>>
    IN  /\ UNCHANGED notLocks
        /\ \/ /\ lpc[t].pc = "idle"
              /\ CanRead(ErrorsLock)
              /\ holders' = Acquire(holders, t, ErrorsLock)
              /\ Goto(t, "gate")
           \/ /\ lpc[t].pc = "gate"
              /\ holders' = Release(holders, t, ErrorsLock)
              /\ \E disconnected \in BOOLEAN :
                   Goto(t, IF disconnected THEN "get" ELSE "idle")
           \/ /\ lpc[t].pc = "get"
              /\ \E ok \in BOOLEAN : Goto(t, IF ok THEN "ok" ELSE "idle")
              /\ UNCHANGED holders
           \/ /\ lpc[t].pc = "ok"
              /\ Free(ErrorsLock)
              /\ holders' = Acquire(holders, t, ErrorsLock)
              /\ Goto(t, "zero")
           \/ /\ lpc[t].pc = "zero"
              /\ holders' = Release(holders, t, ErrorsLock)
              /\ Goto(t, "idle")

\* the task spawned by the ETW callback when try_send fails: write_one
\* under the backup mutex
OverflowLocks ==
    LET t == <<"overflow", 0>>
    IN  /\ UNCHANGED notLocks
        /\ \/ /\ lpc[t].pc = "idle"
              /\ Free(BackupLock)
              /\ holders' = Acquire(holders, t, BackupLock)
              /\ Goto(t, "write")
           \/ /\ lpc[t].pc = "write"
              /\ holders' = Release(holders, t, BackupLock)
              /\ Goto(t, "idle")

\* BackupSender::handle: Backup::upload locks the backup for the directory
\* and again for the path at each entry; then the rotation holds the
\* backup mutex and the mutex of _last_backup_switch together
SenderLocks ==
    LET t == <<"sender", 0>>
    IN  /\ UNCHANGED notLocks
        /\ \/ /\ lpc[t].pc \in {"idle", "pass"}
              /\ Free(BackupLock)
              /\ holders' = Acquire(holders, t, BackupLock)
              /\ Goto(t, "path")
           \/ /\ lpc[t].pc = "path"
              /\ holders' = Release(holders, t, BackupLock)
              /\ Goto(t, "pass")
           \/ /\ lpc[t].pc \in {"idle", "pass"}
              /\ Free(BackupLock)
              /\ holders' = Acquire(holders, t, BackupLock)
              /\ Goto(t, "rotate")
           \/ /\ lpc[t].pc = "rotate"
              /\ Free(TimerLock)
              /\ holders' = Acquire(holders, t, TimerLock)
              /\ Goto(t, "switch")
           \/ /\ lpc[t].pc = "switch"
              /\ holders' = Release(Release(holders, t, TimerLock), t, BackupLock)
              /\ Goto(t, "idle")

\* ------------------------------------------------------------- Pool<T>

\* the tasks that call acquire on one pool of K items, more than it has items
PoolCallers == 1 .. NPoolCallers
PoolItems == 0 .. K - 1

NoItem == 0 - 1
PoolAt(pc, item) == [pc |-> pc, item |-> item]

RECURSIVE SeqOfItems(_)
SeqOfItems(n) == IF n = 0 THEN <<>> ELSE Append(SeqOfItems(n - 1), n - 1)

\* Pool::new: the channel holds every item; no task has called acquire
PoolIdle ==
    /\ pchan = SeqOfItems(K)
    /\ ptask = [c \in PoolCallers |-> PoolAt("idle", NoItem)]

\* the lock of an item's mutex is owned from lock_owned, in acquire, to
\* the drop of the field _item, which follows the body of PoolGuard::drop
ItemLocked(i) == \E c \in PoolCallers : ptask[c].item = i /\ ptask[c].pc \in {"holding", "unlocking"}

\* Pool::acquire line 58: the mutex of the receiver, kept until acquire
\* returns
PoolAcquire(c) ==
    /\ ptask[c].pc = "idle"
    /\ \A d \in PoolCallers : ptask[d].pc \notin {"recv", "locking"}
    /\ ptask' = [ptask EXCEPT ![c] = PoolAt("recv", NoItem)]
    /\ UNCHANGED <<notPool, pchan>>

\* line 60: recv waits until the channel holds an item
PoolRecv(c) ==
    /\ ptask[c].pc = "recv"
    /\ pchan # <<>>
    /\ ptask' = [ptask EXCEPT ![c] = PoolAt("locking", Head(pchan))]
    /\ pchan' = Tail(pchan)
    /\ UNCHANGED notPool

\* lines 61-67: lock_owned waits until the item's mutex is free; the guard
\* is returned
PoolLock(c) ==
    /\ ptask[c].pc = "locking"
    /\ ~ItemLocked(ptask[c].item)
    /\ ptask' = [ptask EXCEPT ![c].pc = "holding"]
    /\ UNCHANGED <<notPool, pchan>>

PoolDropForgets(ch, i) == ch

\* PoolGuard::drop lines 28-31: try_send puts the item back
PoolDropSends(ch, i) == Append(ch, i)

\* the guard is dropped where its flush ends: the item goes back to the
\* channel, which has room for all of them
PoolDrop(c) ==
    /\ ptask[c].pc = "holding"
    /\ pchan' = PoolDropSends(pchan, ptask[c].item)
    /\ ptask' = [ptask EXCEPT ![c].pc = "unlocking"]
    /\ UNCHANGED notPool

\* the fields of the guard are dropped after the body of drop: the
\* item's mutex is unlocked
PoolUnlock(c) ==
    /\ ptask[c].pc = "unlocking"
    /\ ptask' = [ptask EXCEPT ![c] = PoolAt("idle", NoItem)]
    /\ UNCHANGED <<notPool, pchan>>

NextPool ==
    \/ \E c \in PoolCallers : PoolAcquire(c)
    \/ \E c \in PoolCallers : PoolRecv(c)
    \/ \E c \in PoolCallers : PoolLock(c)
    \/ \E c \in PoolCallers : PoolDrop(c)
    \/ \E c \in PoolCallers : PoolUnlock(c)

\* -------------------------------- what the agent sends to the gateway

\* the sequences of one or two different records
RecordSeqs ==
    { <<r>> : r \in 1 .. MaxRecords }
      \cup { <<r, q>> : r, q \in 1 .. MaxRecords }

\* the batch buffer after Connector::handle has appended the records of s
RECURSIVE Accumulated(_)
Accumulated(s) ==
    IF s = <<>> THEN FreshBuffer
    ELSE Accumulated(SubSeq(s, 1, Len(s) - 1)) \o Serialize(s[Len(s)]) \o <<COMMA>>

\* the uncompressed body of a POST /trace, and the line a failed flush
\* writes to the backup file (_send_payload_utils lines 92-93, 159-161)
TraceBody(s) == Finalize(Accumulated(s))
SpooledLine(s) == BackupWrite(BackupWrite(<<>>, TraceBody(s)), <<NL>>)

\* the line of a record the channel refused (Backup::write_one)
OverflowLine(r) == Serialize(r) \o <<NL>>

BackupLines == { SpooledLine(s) : s \in RecordSeqs } \cup { OverflowLine(r) : r \in 1 .. MaxRecords }

\* the decompressed content of an uploaded backup file: one or two lines
BackupBodies == BackupLines \cup { a \o b : a, b \in BackupLines }

\* a request of the agent has arrived at a gateway whose broker is
\* available, and its body arrives whole
InitAgentRequest ==
    /\ route \in {"/trace", "/backup"}
    /\ peer \in Peers
    /\ rabbitmq = TRUE
    /\ request \in (IF route = "/trace" THEN { TraceBody(s) : s \in RecordSeqs }
                                          ELSE BackupBodies)
    /\ stream = request
    /\ corrupt = FALSE
    /\ chained = FALSE
    /\ gpc = "serve"
    /\ buffer = <<>>
    /\ response = 0
    /\ queue = <<>>
    /\ publishFailed = FALSE

\* _send_payload_utils line 100 and the end of the block at line 149: the
\* flush task acquires a buffer of the pool before it compresses, and its
\* PoolGuard is dropped after the failure, if any, was counted
SendPayloadPool(b) ==
    LET t == <<"flush", b>>
        c == PoolCallerOf(b)
    IN  \/ /\ lpc[t].pc = "send"
           /\ PoolAcquire(c) \/ PoolRecv(c) \/ PoolLock(c)
        \/ /\ lpc[t].pc \in {"release", "spill"}
           /\ PoolDrop(c) \/ PoolUnlock(c)

NextLocks ==
    \/ ConnectorLocks
    \/ \E b \in Buffers : SendPayloadLocks(b)
    \/ \E b \in Buffers : SendPayloadPool(b)
    \/ ReconnectorLocks
    \/ OverflowLocks
    \/ SenderLocks

\* --------------------------------------- the writers of the backup store

\* the tasks that write to the backup store: the flush of each batch
\* buffer, two tasks spawned for records the channel refused, and the
\* BackupSender, which rotates
WriterTasks ==
    {<<"flush", b>> : b \in Buffers} \cup {<<"overflow", 1>>, <<"overflow", 2>>}
        \cup {<<"sender", 0>>}

\* what a writer writes before its line feed: a flush the closed batch of
\* its buffer, an overflow task its record
Payloads(t) ==
    IF t[1] = "flush" THEN { TraceBody(s) : s \in {<<1>>, <<2, 3>>} }
    ELSE IF t[1] = "overflow" THEN { Serialize(r) : r \in 1 .. MaxRecords }
    ELSE { <<>> }

\* every writer before its lock().await, the backup mutex free
InitWriters ==
    /\ lpc = [t \in WriterTasks |-> TaskAt("idle", <<>>)]
    /\ holders = [l \in Locks |-> {}]

FreeAlways(l) == TRUE

\* Mutex::lock is granted when no guard of the mutex exists
MutexFree(l) == holders[l] = {}

\* backup.lock().await
WriterLock(t) ==
    /\ lpc[t].pc = "idle"
    /\ MutexFree(BackupLock)
    /\ holders' = Acquire(holders, t, BackupLock)
    /\ \E data \in Payloads(t) : lpc' = [lpc EXCEPT ![t] = TaskAt("locked", data)]
    /\ UNCHANGED notLocks

\* connector.rs line 160 and the write_all of Backup::write_one
WriterData(t) ==
    /\ t[1] # "sender"
    /\ lpc[t].pc = "locked"
    /\ files' = [files EXCEPT ![curPath] = BackupWrite(@, lpc[t].b)]
    /\ Goto(t, "data")
    /\ UNCHANGED <<notAgentLocks, probe, tracerVars, connVars, flushVars, sleepSecs, curPath,
                   sweepVars, holders>>

\* connector.rs line 161 and the write_u8 of Backup::write_one; the guard
\* is dropped when the writer returns
WriterNewline(t) ==
    /\ lpc[t].pc = "data"
    /\ files' = [files EXCEPT ![curPath] = BackupWrite(@, <<NL>>)]
    /\ holders' = Release(holders, t, BackupLock)
    /\ Goto(t, "done")
    /\ UNCHANGED <<notAgentLocks, probe, tracerVars, connVars, flushVars, sleepSecs, curPath,
                   sweepVars>>

\* BackupSender::handle lines 59-70: the current file is kept or switched
WriterRotate ==
    LET t == <<"sender", 0>> IN
    /\ lpc[t].pc = "locked"
    /\ \E keep \in BOOLEAN :
         IF keep THEN UNCHANGED <<files, curPath>>
         ELSE /\ SwitchBackup
              /\ files' = [g \in DOMAIN files \cup {curPath'} |->
                             IF g = curPath' THEN <<>> ELSE files[g]]
    /\ holders' = Release(holders, t, BackupLock)
    /\ Goto(t, "idle")
    /\ UNCHANGED <<notAgentLocks, probe, tracerVars, connVars, flushVars, sleepSecs, sweepVars>>

NextWriters ==
    \/ \E t \in WriterTasks : WriterLock(t)
    \/ \E t \in WriterTasks : WriterData(t)
    \/ \E t \in WriterTasks : WriterNewline(t)
    \/ WriterRotate

\* --------------------------- the compression of a batch into a pooled buffer

\* BytesMut::with_capacity(8192)
PoolCapacity == 8192

\* lengths of the zstd frame of a batch, and of what an earlier flush left
\* in the pooled buffer
FrameLens == {1, 100, PoolCapacity - 1, PoolCapacity, PoolCapacity + 1, 2 * PoolCapacity}
StaleLens == {0, 100, PoolCapacity}

NoBody == [len |-> -1, unused |-> -1]
NoBatch == [batch |-> <<>>, frame |-> 0, pooled |-> [len |-> 0, capacity |-> 0]]

ZstdIdle ==
    /\ zin = NoBatch
    /\ zout = NoBody

\* a closed batch whose frame has some length, and a buffer out of the pool
InitBatches ==
    /\ \E s \in RecordSeqs, n \in FrameLens, stale \in StaleLens :
         zin = [batch |-> TraceBody(s), frame |-> n,
                pooled |-> [len |-> stale, capacity |-> PoolCapacity]]
    /\ zout = NoBody

\* BytesMut::clear: the length becomes 0, the capacity stays
Clear(b) == [b EXCEPT !.len = 0]

\* AsyncReadExt::read_buf: one read of the encoder into the spare capacity
\* of the buffer; the encoder fills what it is given or ends with its frame
ReadBuf(frame, b) == Min(frame, b.capacity - b.len)

\* _send_payload_utils lines 101-121: clear, one read_buf, and the buffer is
\* the body of the POST
Compress ==
    /\ zin # NoBatch
    /\ zout = NoBody
    /\ LET pooled == Clear(zin.pooled)
           n == ReadBuf(zin.frame, pooled)
       IN  zout' = [len |-> pooled.len + n, unused |-> zin.frame - n]
    /\ UNCHANGED <<notZstd, zin>>

\* ---------------------------------------------------------- at rest

\* the components modelled on their own, at rest
ExtraIdle == ModuleIdle /\ EcsIdle /\ ClockIdle /\ LocksIdle /\ PoolIdle /\ ZstdIdle

\* ------------------------------------------------------ specifications
Init == InitAgent /\ GatewayIdle /\ ForwarderIdle /\ UploadIdle /\ CellIdle /\ ExtraIdle
Next == NextAgent
Spec == Init /\ [][Next]_vars

\* the gateway serving one request, the other components at rest
InitRequest == InitAgent /\ InitGateway /\ ForwarderIdle /\ UploadIdle /\ CellIdle /\ ExtraIdle
SpecGateway == InitRequest /\ [][NextGateway]_vars

\* the forwarder consuming a filled queue, the other components at rest
InitConsume == InitAgent /\ GatewayIdle /\ InitForwarder /\ UploadIdle /\ CellIdle /\ ExtraIdle
SpecForwarder == InitConsume /\ [][NextForwarder]_vars

\* the running agent with the steps of Backup::upload interleaved with the
\* writers of the backup store
InitSweeps == InitAgent /\ GatewayIdle /\ ForwarderIdle /\ InitUpload /\ CellIdle /\ ExtraIdle
NextUpload ==
    \/ Callback
    \/ \E r \in 1 .. MaxRecords : OverflowWrite(r)
    \/ Listen
    \/ Handle
    \/ \E b \in Buffers : FlushStart(b)
    \/ \E b \in Buffers : FlushCompress(b)
    \/ \E b \in Buffers : FlushReply(b)
    \/ \E b \in Buffers : FlushSucceeded(b)
    \/ \E b \in Buffers : FlushFailed(b)
    \/ \E b \in Buffers : FlushBackup(b)
    \/ SenderStop
    \/ UploadBegin
    \/ \E f \in DOMAIN files : UploadVisit(f)
    \/ UploadReply
    \/ UploadDone
    \/ UploadEnd
    \/ UploadSwitch
    \/ TimePasses
SpecUpload == InitSweeps /\ [][NextUpload]_vars

\* the BackupSender of an agent that stays offline
SpecOutage == Init /\ [][SweepOffline]_vars

\* rotations in directories that are full or nearly full
InitProbe == InitNames /\ GatewayIdle /\ ForwarderIdle /\ UploadIdle /\ CellIdle /\ ExtraIdle
SpecProbe == InitProbe /\ [][SweepOffline]_vars

\* the running agent (no stop, no sweep): the Connector's loop, the flush
\* tasks and the Reconnector, which is a task of its own that sleeps at most
\* MaxSleep seconds between two turns, so a probe that can be sent is sent
\* and a reply that has arrived is handled
NextRecovery ==
    \/ Callback
    \/ \E r \in 1 .. MaxRecords : OverflowWrite(r)
    \/ Listen
    \/ ListenTimeout
    \/ Handle
    \/ \E b \in Buffers : FlushStart(b)
    \/ \E b \in Buffers : FlushCompress(b)
    \/ \E b \in Buffers : FlushReply(b)
    \/ \E b \in Buffers : FlushSucceeded(b)
    \/ \E b \in Buffers : FlushFailed(b)
    \/ \E b \in Buffers : FlushBackup(b)
    \/ Probe
    \/ ProbeDone
SpecRecovery ==
    Init /\ [][NextRecovery]_vars /\ WF_vars(Probe) /\ WF_vars(ProbeDone)

\* one cell and its callers; every caller that can take a step takes it
InitCallers == InitAgent /\ GatewayIdle /\ ForwarderIdle /\ UploadIdle /\ InitCell /\ ExtraIdle
SpecCell == InitCallers /\ [][NextCell]_vars /\ WF_vars(NextCell)

\* one module: run as a task that is scheduled while it can take a step
\* (listen and handle terminate), stop() called at any moment
SpecModule == Init /\ [][NextModule]_vars /\ WF_vars(RunStep)

\* the projection applied to one record of any variant and opcode
InitProject == InitAgent /\ GatewayIdle /\ ForwarderIdle /\ UploadIdle /\ CellIdle
               /\ ModuleIdle /\ InitEvents /\ ClockIdle /\ LocksIdle /\ PoolIdle /\ ZstdIdle
SpecEcs == InitProject /\ [][Project]_vars

\* the conversion applied to one raw_timestamp
InitConvert == InitAgent /\ GatewayIdle /\ ForwarderIdle /\ UploadIdle /\ CellIdle
               /\ ModuleIdle /\ EcsIdle /\ InitTicks /\ LocksIdle /\ PoolIdle /\ ZstdIdle
SpecClock == InitConvert /\ [][Convert]_vars

\* the tasks of the agent seen at their locks
InitLocks == InitAgent /\ GatewayIdle /\ ForwarderIdle /\ UploadIdle /\ CellIdle /\ ExtraIdle
SpecLocks == InitLocks /\ [][NextLocks]_vars

\* a pool of K items with more tasks than items
InitPool == InitAgent /\ GatewayIdle /\ ForwarderIdle /\ UploadIdle /\ CellIdle /\ ExtraIdle
SpecPool == InitPool /\ [][NextPool]_vars

\* the gateway serving what the agent's Connector and BackupSender send
InitWire == InitAgent /\ InitAgentRequest /\ ForwarderIdle /\ UploadIdle /\ CellIdle /\ ExtraIdle
SpecWire == InitWire /\ [][NextGateway]_vars

\* the writers of the backup store and its rotation, step by step
InitStore ==
    /\ InitAgent /\ GatewayIdle /\ ForwarderIdle /\ UploadIdle /\ CellIdle
    /\ ModuleIdle /\ EcsIdle /\ ClockIdle /\ InitWriters /\ PoolIdle /\ ZstdIdle
SpecStore == InitStore /\ [][NextWriters]_vars

\* the compression of one batch
InitCompress ==
    /\ InitAgent /\ GatewayIdle /\ ForwarderIdle /\ UploadIdle /\ CellIdle
    /\ ModuleIdle /\ EcsIdle /\ ClockIdle /\ LocksIdle /\ PoolIdle /\ InitBatches
SpecZstd == InitCompress /\ [][Compress]_vars

\* the Connector with its flush tasks.  The runtime polls every task that
\* can make progress, the 1-second timeout of listen() expires when nothing
\* arrives, and HTTP calls and file writes return: each step of the run loop
\* and of a flush is weakly fair.  Records arrive, and the agent is stopped,
\* whenever the environment chooses.
NextConnector ==
    \/ Callback
    \/ \E r \in 1 .. MaxRecords : OverflowWrite(r)
    \/ Listen
    \/ ListenTimeout
    \/ Handle
    \/ AgentStop
    \/ Break
    \/ AfterAcquire
    \/ AfterJoin
    \/ \E b \in Buffers : FlushStart(b)
    \/ \E b \in Buffers : FlushCompress(b)
    \/ \E b \in Buffers : FlushReply(b)
    \/ \E b \in Buffers : FlushSucceeded(b)
    \/ \E b \in Buffers : FlushFailed(b)
    \/ \E b \in Buffers : FlushBackup(b)
ConnectorProgress ==
    \/ Listen
    \/ ListenTimeout
    \/ Handle
    \/ Break
    \/ AfterAcquire
    \/ AfterJoin
FlushProgress(b) ==
    \/ FlushStart(b)
    \/ FlushCompress(b)
    \/ FlushReply(b)
    \/ FlushSucceeded(b)
    \/ FlushFailed(b)
    \/ FlushBackup(b)
SpecConnector ==
    /\ Init
    /\ [][NextConnector]_vars
    /\ WF_vars(ConnectorProgress)
    /\ \A b \in Buffers : WF_vars(FlushProgress(b))

\* the tasks at their locks under the scheduling of the runtime: tokio's
\* Mutex, RwLock and mpsc channel serve their waiters in order of arrival,
\* the runtime polls every task that was woken, and the HTTP calls and
\* file operations between two lock operations return.  So a step of a
\* task that is possible again and again is taken.
LockTaskStep(t) ==
    \/ t[1] = "connector" /\ ConnectorLocks
    \/ t[1] = "flush" /\ (SendPayloadLocks(t[2]) \/ SendPayloadPool(t[2]))
    \/ t[1] = "reconnector" /\ ReconnectorLocks
    \/ t[1] = "overflow" /\ OverflowLocks
    \/ t[1] = "sender" /\ SenderLocks
SpecLocksFair ==
    /\ InitLocks
    /\ [][NextLocks]_vars
    /\ \A t \in LockTasks : SF_vars(LockTaskStep(t))

\* ------------------------------------------------ locations of records

\* number of positions of a sequence that hold x
Occ(x, s) == Cardinality({ i \in 1 .. Len(s) : s[i] = x })

\* the lines of a byte string: the segments that a line feed terminates
RECURSIVE LinesFrom(_, _, _)
LinesFrom(bytes, i, cur) ==
    IF i > Len(bytes) THEN <<>>
    ELSE IF bytes[i] = NL THEN <<cur>> \o LinesFrom(bytes, i + 1, <<>>)
    ELSE LinesFrom(bytes, i + 1, Append(cur, bytes[i]))
Lines(bytes) == LinesFrom(bytes, 1, <<>>)

Sum2(f) == IF K = 0 THEN 0 ELSE
    LET RECURSIVE Acc(_)
        Acc(b) == IF b < 0 THEN 0 ELSE f[b] + Acc(b - 1)
    IN Acc(K - 1)

FileNames == DOMAIN files

RECURSIVE OccInFiles(_, _)
OccInFiles(r, names) ==
    IF names = {} THEN 0
    ELSE LET f == CHOOSE g \in names : TRUE
         IN Occ(r, files[f]) + OccInFiles(r, names \ {f})

\* how many times record r is found in the agent: channel, the event in
\* handle's hands, batch buffers, pending overflow tasks, backup files, and
\* the batches and files the server has accepted
Copies(r) ==
      Occ(r, chan)
    + (IF held = Rec(r) THEN 1 ELSE 0)
    + Sum2([b \in Buffers |-> Occ(r, buf[b])])
    + (IF r \in overflow THEN 1 ELSE 0)
    + OccInFiles(r, FileNames)
    + (IF r \in sent THEN 1 ELSE 0)

InBackup(r) == \E f \in FileNames : Occ(r, files[f]) > 0

IsSuccessReply(reply) == reply = Http(200, TRUE)

\* ---------------------------------------------------------------- C1
\* C1: every record accepted by the callback ends up delivered downstream
\* or in a backup file that has not been deleted; no accepted record is
\* silently lost.  Stated for the end of the agent's run: when the Connector
\* has returned, every accepted record was accepted by the server (a batch
\* or a backup file) or is in a backup file, or is still held by a pending
\* overflow-backup task.
C1_NoRecordLost ==
    cpc = "done" =>
        \A r \in 1 .. accepted : r \in sent \/ InBackup(r) \/ r \in overflow

\* ---------------------------------------------------------------- C2
\* C2: every flush of a non-fresh buffer ends in exactly one of two ways: the
\* one POST /trace it issued was answered 200 with a body that parses, and
\* then nothing is written to the backup; or the batch followed by '\n' is
\* appended to the current backup file, and then no POST of it succeeded.
\* A flush issues at most one POST (no inline retry) and a non-fresh buffer
\* is never released without one of the two.
FlushEnds(b) == fpc[b] # "none" /\ fpc'[b] = "none"
EndsSent(b) ==
    /\ fl[b].posts = 1
    /\ IsSuccessReply(fl[b].reply)
    /\ files' = files
    /\ RecordsIn(buf[b]) \subseteq sent'
EndsSpooled(b) ==
    /\ ~(fl[b].posts >= 1 /\ IsSuccessReply(fl[b].reply))
    /\ curPath' = curPath
    /\ files' = [files EXCEPT ![curPath] = @ \o buf[b] \o <<NL>>]
    /\ sent' = sent
C2_FlushStep ==
    \A b \in Buffers :
        /\ fl'[b].posts <= 1
        /\ FlushEnds(b) =>
              IF fpc[b] = "start"
                THEN Len(buf[b]) = 1 /\ files' = files /\ sent' = sent
                ELSE /\ Len(buf[b]) > 1
                     /\ buf[b][Len(buf[b])] = RBRACKET
                     /\ EndsSent(b) \/ EndsSpooled(b)
C2_SentXorSpooled == [][C2_FlushStep]_vars

\* a batch was spooled to the current file after a failed send, and a
\* batch was sent
C2_Witness ==
    /\ errors >= 1
    /\ sent # {}
    /\ \E i \in 1 .. Len(Lines(files[curPath])) :
           LET line == Lines(files[curPath])[i] IN
           Len(line) > 1 /\ line[1] = LBRACKET /\ line[Len(line)] = RBRACKET

\* ---------------------------------------------------------------- C3
\* C3: a flush of a non-fresh buffer that reads the gate while errors = K
\* issues no POST /trace and writes the batch followed by '\n' to the
\* current backup file.
C3_GateStep ==
    \A b \in Buffers :
        /\ (fpc[b] = "start" /\ fpc'[b] # "start" /\ Len(buf[b]) > 1 /\ errors = K)
              => (fpc'[b] = "backup" /\ fl'[b].gate = "disc" /\ fl'[b].posts = 0)
        /\ (fl[b].gate = "disc" /\ fpc'[b] # fpc[b])
              => /\ fpc[b] = "backup" /\ fpc'[b] = "none"
                 /\ fl[b].posts = 0
                 /\ files' = [files EXCEPT ![curPath] = @ \o buf[b] \o <<NL>>]
C3_DisconnectedSpools == [][C3_GateStep]_vars

\* a flush has read the gate while disconnected and is about to spool
C3_Witness ==
    \E b \in Buffers : fl[b].gate = "disc" /\ fpc[b] = "backup" /\ errors = K

\* ---------------------------------------------------------------- C4
\* C4: when try_send fails the record is not enqueued; the callback itself
\* writes nothing and waits for nothing; the record is written exactly once,
\* as the record followed by '\n', to the current backup file by the task
\* the callback spawned.  Every accepted record is in exactly one place
\* (channel, Connector, batch buffer, pending overflow task, backup, or
\* accepted by the server), so that with no overflow task pending and no
\* event in handle's hands the records in the channel, in the batch buffers,
\* sent and in the backup add up to the number accepted.
C4_Conserved == \A r \in 1 .. MaxRecords : Copies(r) = (IF r <= accepted THEN 1 ELSE 0)
C4_OverflowStep ==
    /\ (accepted' = accepted + 1 /\ Len(chan) >= QueueLimit)
          => /\ chan' = chan
             /\ overflow' = overflow \cup {accepted'}
             /\ files' = files
    /\ \A r \in overflow \ overflow' :
          /\ Occ(r, chan') = 0
          /\ files' = [files EXCEPT ![curPath] = @ \o <<LBRACE, r, RBRACE, NL>>]
C4_OverflowToBackup == [](C4_Conserved) /\ [][C4_OverflowStep]_vars

\* an overflow record has been written as a line of its own
C4_Witness ==
    \E r \in 1 .. accepted, f \in FileNames :
        /\ r \notin overflow
        /\ \E i \in 1 .. Len(Lines(files[f])) : Lines(files[f])[i] = <<LBRACE, r, RBRACE>>

\* ---------------------------------------------------------------- C5
\* C5: when the Connector's run has returned, after_hook has acquired and
\* flushed every one of the K buffers, no flush task is still running, every
\* buffer is '[', and every record that had been put into a batch buffer was
\* sent successfully or written to a backup file.
C5_DrainedAtReturn ==
    cpc = "done" =>
        /\ drainIdx = K
        /\ \A b \in Buffers : fpc[b] = "none" /\ buf[b] = FreshBuffer
        /\ held = NoEvent
        /\ \A r \in 1 .. accepted :
              (Occ(r, chan) = 0 /\ r \notin overflow) => (r \in sent \/ InBackup(r))

\* the run has returned after batches were sent and spooled
C5_Witness ==
    /\ cpc = "done"
    /\ sent # {}
    /\ \E r \in 1 .. accepted : InBackup(r)

\* ------------------------------------------------ gateway: what is due

\* the peer trailer: the address as a 16-byte big-endian u128 (an IPv4
\* address in the low 32 bits, the upper bits zero), then one byte, 1 for
\* IPv4 and 0 otherwise
PeerTrailer(ip) ==
    [i \in 1 .. 17 |->
        IF i = 17 THEN (IF ip.v4 THEN 1 ELSE 0)
        ELSE IF ~ip.v4 THEN ip.octets[i]
        ELSE IF i <= 12 THEN 0 ELSE ip.octets[i - 12]]

\* the non-empty newline-delimited segments of a body, the last one
\* terminated by the synthetic line feed
NonEmptyFrames(bytes) == SelectSeq(Lines(bytes \o <<NL>>), LAMBDA l : l # <<>>)

\* the messages due for the request: its non-empty frames, in order, each
\* once, with the trailer of the peer
DueMessages ==
    LET frames == NonEmptyFrames(request)
    IN [i \in 1 .. Len(frames) |-> frames[i] \o PeerTrailer(peer)]

\* ---------------------------------------------------------------- C6
\* C6: a delivery is acked only after a bulk request holding its document
\* has succeeded.  When the bulk request of a process call succeeded (the
\* index accepted it) every message that contributed to it is acked; when
\* it failed (transport error, index client unavailable, or the index
\* rejecting the request) none of them is acked and all of them are back in
\* the queue.
C6_AckFollowsBulk ==
    /\ \A m \in settled \ poison : m \in indexed
    /\ bulk.outcome = "indexed" => bulk.docs \subseteq settled
    /\ bulk.outcome \in {"rejected", "transport_error", "unavailable"}
          => /\ bulk.docs \cap settled = {}
             /\ bulk.docs \subseteq Range(ready)

\* ---------------------------------------------------------------- C7
\* C7: a delivery whose body, after its trailer is removed, is not an
\* envelope is acked by the process call that received it, and is never
\* nacked with requeue, whatever happens to the deliveries around it.
C7_PoisonAckedNotRequeued ==
    \A m \in poison :
        /\ m \notin requeued
        /\ \A t \in DOMAIN unacked : unacked[t] # m

\* ---------------------------------------------------------------- C8
\* C8: for a POST /trace answered 200, the messages published to the
\* "events" queue once the request has been handled are exactly the
\* non-empty newline-delimited segments of the decompressed body, in order,
\* each once, each with the 17-byte peer trailer.
C8_TracePublishesFrames ==
    (route = "/trace" /\ response = 200 /\ gpc = "done") => queue = DueMessages

\* ---------------------------------------------------------------- C9
\* C9: when the broker channel is unavailable the gateway answers POST
\* /trace and POST /backup with 503.
C9_BrokerDownAnswers503 ==
    (~rabbitmq /\ response # 0) => response = 503

\* --------------------------------------------------------------- C10
\* C10: POST /backup is answered 204 only when every frame of the request
\* body has been published; when a publish fails the handler stops and the
\* answer is 503, never 204.
C10_BackupAckAfterPublish ==
    route = "/backup" =>
        /\ response = 204 => (~publishFailed /\ queue = DueMessages)
        /\ publishFailed => (response = 503 /\ gpc = "done")


\* --------------------------------------------------------------- C11
\* C11: a POST /backup whose body cannot be read or decompressed to its end
\* is not answered 204.
C11_BrokenStreamNot204 ==
    (route = "/backup" /\ corrupt /\ response # 0) => response # 204

\* --------------------------------------------------------------- C12
\* C12: a backup file leaves the directory only in the step that handles the
\* reply of the POST /backup that streamed it, and only when that reply is a
\* response with status 204.  After a transport error, another status, or a
\* failed exclusive open the directory is unchanged, and every sweep starts
\* from all the files of the directory.  Once stop is signalled no further
\* entry is visited and no further upload starts.
C12_UploadStep ==
    /\ \A f \in DOMAIN files \ DOMAIN files' :
          /\ spc = "replied"
          /\ upl.file = f
          /\ ~upl.reply.err /\ upl.reply.status = 204
    /\ (spc = "replied" /\ (upl.reply.err \/ upl.reply.status # 204))
          => DOMAIN files' = DOMAIN files
    /\ (spc = "visit" /\ spc' = "visit" /\ entries' # entries)
          => DOMAIN files' = DOMAIN files
    /\ (spc = "idle" /\ spc' = "visit") => entries' = DOMAIN files
    /\ (spc' = "post" /\ spc # "post") => ~bstopped
    /\ (bstopped /\ entries' # entries) => (entries' = {} /\ spc' = "switch")
C12_DeleteOnlyAfter204 == [][C12_UploadStep]_vars

\* a file has been removed after its upload (its name was taken again by
\* the current file), the upload of a later file has failed and that file
\* is still there, and stop has been signalled during the sweep
C12_Witness ==
    /\ spc = "replied"
    /\ upl.reply.status = 503
    /\ upl.file \in DOMAIN files
    /\ curPath < upl.file
    /\ bstopped

\* --------------------------------------------------------------- C13
\* C13: the current backup file is never the file being POSTed and is never
\* removed; a file is written only while it is the current one, so no file
\* is written while it is uploaded; the visit of the current file's entry
\* starts no upload.
C13_CurrentUntouched ==
    /\ upl.file # curPath
    /\ curPath \in DOMAIN files
C13_StoreStep ==
    /\ \A f \in DOMAIN files \cap DOMAIN files' :
          files'[f] # files[f] => (f = curPath /\ f = curPath' /\ upl.file # f)
    /\ \A f \in DOMAIN files \ DOMAIN files' : f # curPath /\ f # curPath'
    /\ (spc = "visit" /\ entries \ entries' = {curPath}) => (spc' # "post" /\ upl' = upl)
    /\ (upl'.file # upl.file /\ upl'.file # -1) => upl'.file # curPath
C13_CurrentFileNotUploaded == [](C13_CurrentUntouched) /\ [][C13_StoreStep]_vars

\* an older file is being uploaded while the current file, whose path does
\* not compare equal to its directory entry, holds a flushed batch
C13_Witness ==
    /\ ~canon
    /\ spc = "post"
    /\ upl.file \in DOMAIN files
    /\ curPath \notin entries
    /\ \E i \in 1 .. Len(files[curPath]) : files[curPath][i] = RBRACKET

\* --------------------------------------------------------------- C14
\* C14: errors is always in 0 .. K, and a step in which a flush task
\* observes a failed compression or a failed POST /trace sets errors to
\* min(errors + 1, K), which is never below its old value, also when the
\* other flush task has failed too.
C14_ErrorsInRange == errors \in 0 .. K
C14_FailureStep ==
    \A b \in Buffers :
       (/\ \/ fpc[b] = "failed"
           \/ /\ fpc[b] = "replied"
              /\ ~(~fl[b].reply.err /\ fl[b].reply.status = 200 /\ fl[b].reply.json)
        /\ fpc'[b] = "backup")
       => /\ errors' = (IF errors + 1 < K THEN errors + 1 ELSE K)
          /\ errors' >= errors
C14_ErrorsBoundedMonotone == [](C14_ErrorsInRange) /\ [][C14_FailureStep]_vars

\* two flush tasks passed the gate together; the failure of one has brought
\* errors to K and the other has received a failed reply that is counted next
C14_Witness ==
    /\ errors = K
    /\ \E b, c \in Buffers :
          /\ b # c
          /\ fpc[b] = "backup" /\ fl[b].gate = "conn"
          /\ fpc[c] = "replied" /\ fl[c].reply.status = 503

\* --------------------------------------------------------------- C15
\* C15: the step that handles a /health-check reply which is a response
\* with status 204 sets errors to 0 and the sleep interval to 5 seconds.
C15_ProbeStep ==
    (/\ probe # NoReply
     /\ ~probe.err /\ probe.status = 204
     /\ probe' = NoReply)
    => (errors' = 0 /\ sleepSecs' = 5)
C15_ProbeSuccessResets == [][C15_ProbeStep]_vars

\* errors and the interval have been reset while a flush task that found
\* the connector disconnected has not yet written its batch to the backup
C15_Witness ==
    /\ errors = 0
    /\ sleepSecs = InitialSleep
    /\ probe = NoReply
    /\ \E b \in Buffers : fpc[b] = "backup" /\ fl[b].gate = "disc"

\* --------------------------------------------------------------- C16
\* C16: recovery.  Below K every failed flush adds one to errors, so K
\* failures in a row bring it to K.  If from some point on every
\* /health-check reply is a 204 response, then whenever errors is K it
\* later is 0.  A flush that reads the gate with errors below K compresses
\* and issues POST /trace, and a flush that reads it at K, or that fails,
\* ends with its batch and a line feed appended to the current backup file.
C16_HealthOk == probe = NoReply \/ (~probe.err /\ probe.status = 204)
C16_RecoveryStep ==
    \A b \in Buffers :
       /\ (/\ errors < K
           /\ \/ fpc[b] = "failed"
              \/ fpc[b] = "replied" /\ fl[b].reply # Http(200, TRUE)
           /\ fpc'[b] = "backup")
          => errors' = errors + 1
       /\ (fpc[b] = "start" /\ fpc'[b] \notin {"start", "none"})
          => fpc'[b] = (IF errors < K THEN "compress" ELSE "backup")
       /\ (fpc[b] = "compress" /\ fpc'[b] # "compress")
          => \/ fpc'[b] = "post" /\ fl'[b].posts = fl[b].posts + 1
             \/ fpc'[b] = "failed"
       /\ (fpc[b] = "backup" /\ fpc'[b] # "backup")
          => /\ curPath' = curPath
             /\ files' = [files EXCEPT ![curPath] = @ \o buf[b] \o <<NL>>]
C16_Recovery ==
    /\ [][C16_RecoveryStep]_vars
    /\ (<>[](C16_HealthOk)) => ((errors = K) ~> (errors = 0))

\* errors is 0 again after failed flushes had brought it to K (their two
\* batches are in the backup file), and a later flush has issued its POST
C16_Witness ==
    /\ errors = 0
    /\ Cardinality({ i \in 1 .. Len(files[curPath]) : files[curPath][i] = RBRACKET }) = K
    /\ \E b \in Buffers : fpc[b] = "post" /\ fl[b].gate = "conn"

\* --------------------------------------------------------------- C17
\* C17: while every request fails, no step of the agent panics, whatever
\* the number of sweeps and rotations.
C17_OutageNeverFatal == ~panicked

\* --------------------------------------------------------------- C18
\* C18: a rotation makes current the least index in 0 .. 999 whose name is
\* not in the directory and creates it empty; every file that existed keeps
\* its content; when all the 1000 names exist the rotation panics and
\* chooses no name.
C18_RotationStep ==
    (files' # files \/ curPath' # curPath \/ panicked' # panicked) =>
        IF \A k \in 0 .. 999 : k \in DOMAIN files
          THEN panicked' /\ files' = files /\ curPath' = curPath
          ELSE /\ ~panicked'
               /\ curPath' \in 0 .. 999
               /\ curPath' \notin DOMAIN files
               /\ \A k \in 0 .. curPath' - 1 : k \in DOMAIN files
               /\ DOMAIN files' = DOMAIN files \cup {curPath'}
               /\ files'[curPath'] = <<>>
               /\ \A g \in DOMAIN files : files'[g] = files[g]
C18_LeastFreeName == [][C18_RotationStep]_vars

\* a rotation has taken a low free name, just above an older file, while
\* higher names are still free
C18_Witness ==
    /\ curPath = 1
    /\ files[1] = <<>>
    /\ 0 \in DOMAIN files /\ files[0] # <<>>
    /\ 2 \notin DOMAIN files
    /\ 999 \notin DOMAIN files

\* --------------------------------------------------------------- C19
\* C19: once an initialisation attempt of the cell has failed, no
\* initializer is invoked again: the failed attempt is the last one and no
\* caller is running an initializer.
C19_NoRetryAfterFailure ==
    (\E i \in 1 .. Len(attempts) : attempts[i] = "failed") =>
        /\ attempts[Len(attempts)] = "failed"
        /\ Len(attempts) = 1
        /\ \A c \in Callers : callers[c].pc # "init"

\* --------------------------------------------------------------- C20
\* C20: every caller that has found an initialisation in progress
\* eventually returns.
C20_WaiterReturns ==
    \A c \in Callers : (callers[c].pc = "register") ~> (callers[c].pc = "done")

\* --------------------------------------------------------------- C21
\* C21 as stated: once the latch is set, the run loop ends by running
\* after_hook exactly once before run returns.
C21_LoopPositions == {"while", "select", "event", "handle", "after"}
C21_StoppedLoopEndsInAfterHook ==
    [][(latch /\ mpc \in C21_LoopPositions /\ mpc' = "returned") => hooks' = 1]_vars

\* C21 as amended: every stop() call leaves the latch set and the latch is
\* never unset; at most one handle call starts with the latch set;
\* after_hook runs at most once; run returns either from after_hook, which
\* it reaches only with the latch set and runs once, or at once with the
\* error of before_hook or of a handle call, without after_hook; and once
\* the latch is set run returns.
C21_LifecycleStep ==
    /\ latch => latch'
    /\ stops' # stops => latch'
    /\ further' <= 1
    /\ hooks' <= 1
    /\ (mpc # "after" /\ mpc' = "after") => latch
    /\ (mpc # "returned" /\ mpc' = "returned") =>
          IF mpc = "after"
            THEN hooks = 0 /\ hooks' = 1
            ELSE mpc \in {"before", "handle"} /\ mres' = "err" /\ hooks' = 0
C21_Lifecycle ==
    /\ [][C21_LifecycleStep]_vars
    /\ latch ~> (mpc = "returned")

\* stop() was called three times, one handle call started after the first
\* of them, and run has returned Ok after its after_hook
C21_Witness ==
    /\ stops = 3
    /\ further = 1
    /\ mpc = "returned"
    /\ hooks = 1
    /\ mres = "ok"

\* --------------------------------------------------------------- C22
\* C22: whenever a flush task ends (it releases the guard of its batch
\* buffer), the buffer is exactly the one byte '[': after the early return
\* for a fresh buffer, after a successful send, after a failed send and
\* after a flush that found the Connector disconnected.
C22_FlushEndStep ==
    \A b \in Buffers :
       (fpc[b] # "none" /\ fpc'[b] = "none") => (Len(buf'[b]) = 1 /\ buf'[b][1] = 91)
C22_BufferFreshAfterFlush == [][C22_FlushEndStep]_vars

\* all the flushes have ended: one batch was accepted by the server and K
\* batches were written to the backup after their sends had failed
C22_Witness ==
    /\ \A b \in Buffers : fpc[b] = "none" /\ buf[b] = <<91>>
    /\ sent # {}
    /\ errors = K
    /\ Cardinality({ i \in 1 .. Len(files[curPath]) : files[curPath][i] = RBRACKET }) = K
    /\ accepted = MaxRecords
    /\ chan = <<>>

\* --------------------------------------------------------------- C23
\* C23: on /trace and on /backup every published body is a non-empty frame
\* of the request followed by the 16 big-endian bytes of the peer address
\* (IPv4 in the low 32 bits, the upper 96 bits zero; IPv6 in full) and the
\* flag byte (1 for IPv4, 0 for IPv6), and the forwarder's decoding of the
\* body gives back exactly that frame and that address.
C23_Framed(body) ==
    \E frame \in Range(NonEmptyFrames(request)) :
       /\ body = frame \o PeerTrailer(peer)
       /\ DecodeTrailer(body).data = frame
       /\ DecodeTrailer(body).ip = peer
C23_TrailerRoundTrip == \A i \in 1 .. Len(queue) : C23_Framed(queue[i])

\* a frame was published on /trace for the IPv6 peer ::127.0.0.1, whose 16
\* address bytes equal those of the IPv4 peer 127.0.0.1
C23_Witness ==
    /\ route = "/trace"
    /\ ~peer.v4
    /\ SubSeq(peer.octets, 13, 16) = <<127, 0, 0, 1>>
    /\ Len(queue) >= 1
    /\ gpc = "done"

\* ------------------------------------------------------------------ C24

\* the opcodes a variant's table names (74 and 75 are named by the code's
\* FileOperation arm only and are counted as known here)
C24_OpcodeTable(variant) ==
    CASE variant = "FileCreate" -> {64}
      [] variant = "FileOperation" -> {69, 70, 71, 74, 75}
      [] variant = "Image" -> {2, 10}
      [] variant = "Process" -> {1, 2}
      [] variant = "Registry" -> {10, 12, 14, 15, 20, 21, 22, 23}
      [] variant = "TcpIp" -> {12, 13, 15}
      [] variant = "UdpIp" -> {10, 11}

\* the '*-unknown' actions a variant may use
C24_UnknownActions(variant) ==
    CASE variant \in {"FileCreate", "FileOperation"} -> {"file-unknown"}
      [] variant = "Image" -> {"image-unknown"}
      [] variant = "Process" -> {"process-unknown"}
      [] variant = "Registry" -> {"registry-unknown"}
      [] variant = "TcpIp" -> {"tcp-unknown", "tcp-udp-unknown"}
      [] variant = "UdpIp" -> {"udp-unknown", "tcp-udp-unknown"}

\* C24: the projection is total, and for every opcode outside the variant's
\* opcode table the projected record has the variant's '*-unknown' action
\* and event.type "info".
C24_UnknownOpcodeIsInfo ==
    /\ ToEcs(ev.variant, ev.opcode) # NoDoc
    /\ (doc # NoDoc /\ ev.opcode \notin C24_OpcodeTable(ev.variant))
          => /\ doc.action \in C24_UnknownActions(ev.variant)
             /\ doc.type = "info"

\* ------------------------------------------------------------------ C25

\* digits times a small factor
RECURSIVE C25_MulLimbs(_, _, _, _, _)
C25_MulLimbs(x, k, i, carry, acc) ==
    IF i = 0 THEN acc
    ELSE LET cur == x[i] * k + carry
         IN  C25_MulLimbs(x, k, i - 1, cur \div 100, <<cur % 100>> \o acc)

C25_Mul(x, k) == C25_MulLimbs(x, k, Limbs, 0, <<>>)

\* the sum of digits, and their difference (x >= y)
RECURSIVE C25_AddLimbs(_, _, _, _, _)
C25_AddLimbs(x, y, i, carry, acc) ==
    IF i = 0 THEN acc
    ELSE LET cur == x[i] + y[i] + carry
         IN  C25_AddLimbs(x, y, i - 1, cur \div 100, <<cur % 100>> \o acc)

C25_Add(x, y) == C25_AddLimbs(x, y, Limbs, 0, <<>>)

RECURSIVE C25_SubLimbs(_, _, _, _, _)
C25_SubLimbs(x, y, i, borrow, acc) ==
    IF i = 0 THEN acc
    ELSE LET cur == x[i] - y[i] - borrow
         IN  C25_SubLimbs(x, y, i - 1, IF cur < 0 THEN 1 ELSE 0, <<cur % 100>> \o acc)

C25_Sub(x, y) == C25_SubLimbs(x, y, Limbs, 0, <<>>)

\* the number of 100 ns steps from BASE to an instant, by sign and digits:
\* (days * 86400 + sod) * 10^7 + nanos / 100
C25_TicksSinceBase(t) ==
    LET part == C25_Add(C25_Mul(FromInt(t.sod), 10000000), FromInt(t.nanos \div 100))
        whole(d) == C25_Mul(C25_Mul(FromInt(d), 86400), 10000000)
    IN  IF t.days >= 0
        THEN [neg |-> FALSE, mag |-> C25_Add(whole(t.days), part)]
        ELSE [neg |-> TRUE, mag |-> C25_Sub(whole(0 - t.days), part)]

\* C25: the instant returned for a tick is BASE + tick * 100 ns exactly (it
\* lies on the 100 ns grid and tick steps from BASE, so the tick is
\* recovered from it), and no other tick gives the same instant.
C25_ConversionExact ==
    stamp # NoStamp =>
        /\ stamp.sod \in 0 .. 86399
        /\ stamp.nanos \in 0 .. 999999999
        /\ stamp.nanos % 100 = 0
        /\ C25_TicksSinceBase(stamp) = tick
        /\ \A t \in TickInputs : t # tick => WindowsTimestamp(t) # stamp

\* a tick with a fraction of a second has been converted, before BASE and
\* after it
C25_Witness ==
    /\ stamp # NoStamp
    /\ stamp.nanos = 100
    /\ stamp.days > 150000
C25_WitnessBefore ==
    /\ stamp # NoStamp
    /\ tick.neg
    /\ stamp.nanos = 999999900

\* ------------------------------------------------------------------ C26

\* raw_timestamp = 132000000000000000
C26_Tick == [neg |-> FALSE, mag |-> <<0, 13, 20, 0, 0, 0, 0, 0, 0, 0>>]

\* C26 as stated: the @timestamp of raw_timestamp 132000000000000000 is
\* 2019-05-04T03:33:20Z.
C26_TimestampAsStated ==
    (tick = C26_Tick /\ stamp # NoStamp) =>
        Rfc3339(stamp) = [year |-> 2019, month |-> 5, day |-> 4,
                          hour |-> 3, minute |-> 33, second |-> 20, nanos |-> 0]

\* C26: the @timestamp of raw_timestamp 132000000000000000 is
\* 2019-04-17T18:40:00Z (13 200 000 000 s, that is 152 777 days and
\* 67 200 s, after 1601-01-01T00:00:00Z).
C26_Timestamp ==
    (tick = C26_Tick /\ stamp # NoStamp) =>
        /\ stamp = [days |-> 152777, sod |-> 67200, nanos |-> 0]
        /\ Rfc3339(stamp) = [year |-> 2019, month |-> 4, day |-> 17,
                             hour |-> 18, minute |-> 40, second |-> 0, nanos |-> 0]

\* the calendar on known instants: BASE itself, the last day of the leap
\* year 1604, and 2020-01-01T00:00:00Z (132223104000000000)
C26_Calendar ==
    /\ Rfc3339(BASE) = [year |-> 1601, month |-> 1, day |-> 1,
                        hour |-> 0, minute |-> 0, second |-> 0, nanos |-> 0]
    /\ Rfc3339([days |-> 1460, sod |-> 86399, nanos |-> 0]) =
           [year |-> 1604, month |-> 12, day |-> 31,
            hour |-> 23, minute |-> 59, second |-> 59, nanos |-> 0]
    /\ Rfc3339(WindowsTimestamp([neg |-> FALSE, mag |-> <<0, 13, 22, 23, 10, 40, 0, 0, 0, 0>>])) =
           [year |-> 2020, month |-> 1, day |-> 1,
            hour |-> 0, minute |-> 0, second |-> 0, nanos |-> 0]

C26_Witness == tick = C26_Tick /\ stamp # NoStamp

\* ------------------------------------------------------------------ C27

\* the intervals, in seconds, in the order failed probes go through them
C27_Intervals == <<5, 7, 10, 15, 22, 33, 49, 60>>

C27_IsInterval(s) == \E i \in DOMAIN C27_Intervals : C27_Intervals[i] = s

\* the interval after a failed probe: the next of the list, 60 after 60
C27_After(s) ==
    IF s = 60 THEN 60
    ELSE LET i == CHOOSE j \in DOMAIN C27_Intervals : C27_Intervals[j] = s
         IN  C27_Intervals[i + 1]

C27_ProbeStep ==
    \* GET /health-check is sent only while errors = K
    /\ (probe = NoReply /\ probe' # NoReply) => errors = K
    \* a failed probe moves the interval to min(60, s * 3 / 2)
    /\ (probe # NoReply /\ probe' = NoReply /\ ~(probe.err = FALSE /\ probe.status = 204))
          => /\ sleepSecs' = C27_After(sleepSecs)
             /\ (sleepSecs * 3 >= 120 => sleepSecs' = 60)
             /\ (sleepSecs * 3 < 120 => sleepSecs' = (sleepSecs * 3) \div 2)
    \* the interval changes in the step that ends a probe only
    /\ sleepSecs' # sleepSecs => (probe # NoReply /\ probe' = NoReply)
    \* and decreases only by the reset to 5 that follows a 204
    /\ sleepSecs' < sleepSecs
          => (sleepSecs' = 5 /\ probe.err = FALSE /\ probe.status = 204)

\* C27: the probe is sent only when the Reconnector wakes with errors = K;
\* the interval starts at 5 s, goes through 5, 7, 10, 15, 22, 33, 49, 60 on
\* failed probes, is changed by nothing else, lies in [5, 60] and decreases
\* only by the reset to 5 after a successful probe.
C27_ProbeBackoff ==
    /\ sleepSecs = 5
    /\ [](C27_IsInterval(sleepSecs) /\ sleepSecs >= 5 /\ sleepSecs <= 60)
    /\ [][C27_ProbeStep]_vars

\* the interval has reached its cap and a probe that will succeed is in flight
C27_Witness ==
    /\ sleepSecs = 60
    /\ errors = K
    /\ probe # NoReply
    /\ ProbeOk(probe)

\* ------------------------------------------------------------------ C28

\* the step in which a sweep reaches its rotation
C28_Rotation == spc = "switch" /\ spc' = "idle"

\* the step that ends the upload pass of a sweep (or finds the directory
\* unreadable)
C28_PassEnds == spc # "switch" /\ spc' = "switch"

C28_SwitchStep ==
    \* the current file changes in the rotation of a sweep only, which
    \* follows the upload pass
    /\ curPath' # curPath => C28_Rotation
    /\ (C28_Rotation /\ rot'.meta) =>
          \* a file of 5 MiB or more, or 60 s or more since the last switch
          /\ (rot'.len >= 5 * 1024 * 1024 \/ rot'.age >= 60 * 1000)
                => (curPath' # curPath /\ rot'.switched /\ rot'.prev = curPath)
          \* a smaller file and less than 60 s
          /\ (rot'.len < 5 * 1024 * 1024 /\ rot'.age < 60 * 1000)
                => (curPath' = curPath /\ ~rot'.switched)
    \* the time is counted from the last switch
    /\ C28_Rotation => (rot'.age = elapsed /\ (rot'.switched => elapsed' = 0))
    /\ (elapsed' < elapsed) => (C28_Rotation /\ curPath' # curPath)

C28_NextPassStep ==
    \* the next pass lists the previous file, which is not the current one
    /\ (spc = "idle" /\ spc' = "visit" /\ rot.switched)
          => (rot.prev \in entries' /\ rot.prev # curPath)
    \* its visit is not skipped: the file is neither taken for the current
    \* one nor held open by the agent
    /\ (spc = "visit" /\ spc' # "switch" /\ rot.switched
          /\ rot.prev \in entries /\ rot.prev \notin entries')
          => (~bstopped /\ ~IsCurrentPath(rot.prev) /\ ~HeldOpen(rot.prev))
    \* and the pass does not end before the visit, unless the latch is set
    \* or the directory could not be read
    /\ (C28_PassEnds /\ rot.switched)
          => \/ spc = "visit" /\ (rot.prev \notin entries \/ bstopped)
             \/ spc = "idle"

C29_FailedBatchDropped ==
    [][\A b \in Buffers :
         (fpc[b] = "failed" /\ fpc'[b] # "failed")
            => (fpc'[b] = "none" /\ buf'[b] = FreshBuffer /\ files' = files)]_vars

C29_FailedStep ==
    \A b \in Buffers :
      \* the failure is counted like a failed send and the batch is kept
      /\ (fpc[b] = "failed" /\ fpc'[b] # "failed")
            => /\ fpc'[b] = "backup"
               /\ errors' = (IF errors < K THEN errors + 1 ELSE K)
               /\ buf'[b] = buf[b]
               /\ fl'[b].posts = 0
               /\ files' = files
      \* a flush on its way to the backup writes the batch and a line feed
      \* to the current file and resets the buffer
      /\ (fpc[b] = "backup" /\ fpc'[b] # "backup")
            => /\ fpc'[b] = "none"
               /\ files'[curPath] = files[curPath] \o buf[b] \o <<NL>>
               /\ buf'[b] = FreshBuffer

\* C29: when compressing a batch fails the batch is not POSTed; the failure
\* is counted and the batch is written to the current backup file, then the
\* buffer is reinitialised to '['; the flush ends like any other.
C29_FailedBatchBackedUp ==
    /\ [](\A b \in Buffers : fpc[b] = "failed" => (fl[b].posts = 0 /\ RecordsIn(buf[b]) # {}))
    /\ [][C29_FailedStep]_vars

\* the compression of a batch has failed while the agent is connected
C29_Witness ==
    \E b \in Buffers :
      /\ fpc[b] = "failed"
      /\ errors = 0
      /\ RecordsIn(buf[b]) # {}

\* ------------------------------------------------------------------ C30

\* the locks the discipline is about (the errors rw-lock, the backup mutex
\* and the batch mutexes) that a task holds
C30_Held(t) == {l \in Locks \ {TimerLock} : t \in holders[l]}

C30_BatchLocks == {BatchLock(b) : b \in Buffers}

C30_Discipline ==
    \A t \in LockTasks :
      \* never the errors lock and the backup mutex together, never two
      \* batch mutexes
      /\ Cardinality(C30_Held(t) \ C30_BatchLocks) <= 1
      /\ Cardinality(C30_Held(t) \cap C30_BatchLocks) <= 1
      \* two locks are held by a flush task only: the guard of its own
      \* buffer and, inside it, the errors lock or the backup mutex
      /\ Cardinality(C30_Held(t)) > 1
            => (t[1] = "flush" /\ BatchLock(t[2]) \in C30_Held(t))
      \* a flush task holds the guard of its buffer as long as it runs
      /\ (t[1] = "flush" /\ lpc[t].pc # "none") => BatchLock(t[2]) \in C30_Held(t)

C30_Exclusion ==
    \* a mutex has one holder at most, the rw-lock one writer or readers
    /\ \A l \in Locks \ {ErrorsLock} : Cardinality(holders[l]) <= 1
    /\ \A t \in holders[ErrorsLock] : Writing(t) => holders[ErrorsLock] = {t}

\* the backup mutex is innermost: a task that holds it takes none of the
\* locks of the discipline
C30_InnermostStep ==
    \A t \in LockTasks :
      BackupLock \in C30_Held(t) => C30_Held(t)' \subseteq C30_Held(t)

C31_Holding == {c \in PoolCallers : ptask[c].pc = "holding"}
C31_Out == {c \in PoolCallers : ptask[c].pc \in {"locking", "holding"}}

C31_Bounded ==
    \* free plus held is K, so at most K requests are in flight
    /\ Len(pchan) + Cardinality(C31_Out) = K
    /\ Cardinality(C31_Holding) <= K
    \* an item has one holder at most and is not free while it is held
    /\ \A c, d \in C31_Out : ptask[c].item = ptask[d].item => c = d
    /\ \A c \in C31_Out : \A k \in DOMAIN pchan : pchan[k] # ptask[c].item
    /\ \A k, m \in DOMAIN pchan : pchan[k] = pchan[m] => k = m

C31_PoolStep ==
    \A c \in PoolCallers :
      \* an acquire that finds every item held waits
      /\ (ptask[c].pc = "recv" /\ pchan = <<>>) => ptask'[c] = ptask[c]
      \* nothing but the task's own acquire hands it an item
      /\ (ptask'[c].item # NoItem /\ ptask[c].item = NoItem)
            => (ptask[c].pc = "recv" /\ pchan # <<>> /\ ptask'[c].item = pchan[1])
      \* the end of a flush returns its item to the pool
      /\ (ptask[c].pc = "holding" /\ ptask'[c].pc # "holding")
            => pchan' = Append(pchan, ptask[c].item)

\* C31: at most K flushes hold a compressed buffer (and so at most K POST
\* /trace are in flight); a buffer has one holder at most; acquire waits
\* while all K are held; the end of a flush returns its buffer; free plus
\* held buffers are always K.
C31_PoolBounds == [](C31_Bounded) /\ [][C31_PoolStep]_vars

\* all K buffers are held and another task waits in acquire
C31_Witness ==
    /\ Cardinality(C31_Holding) = K
    /\ pchan = <<>>
    /\ \E c \in PoolCallers : ptask[c].pc = "recv"

\* ------------------------------------------------------------------ C32

C32_AppendStep ==
    \A b \in Buffers :
      \* while a flush of b is in progress only that flush touches b: it
      \* closes the batch or resets the buffer, and no record comes in
      /\ fpc[b] # "none" =>
            /\ RecordsIn(buf'[b]) \subseteq RecordsIn(buf[b])
            /\ buf'[b] \in {buf[b], Finalize(buf[b]), FreshBuffer}
      \* a flush in progress is replaced by no other
      /\ (fpc[b] # "none" /\ fpc'[b] = "start") => fpc[b] = "start"
      \* the buffer is reset in the step that ends the flush
      /\ (fpc[b] # "none" /\ fpc'[b] = "none") => buf'[b] \in {FreshBuffer, buf[b]}

\* handle waits for the guard of the current buffer, and while it waits the
\* Connector takes nothing from the channel
C32_WaitStep ==
    (cpc = "handle" /\ fpc[index] # "none")
       => (cpc' = "handle" /\ held' = held /\ index' = index
           /\ Len(chan') >= Len(chan))

\* C32: no record is appended to a batch buffer while a flush of that
\* buffer is in progress; a flush owns the buffer from the moment it is
\* scheduled until it has reset it; handle waits for the flush of the
\* buffer the index has come back to, and takes no record meanwhile.
C32_FlushOwnsBuffer == [][C32_AppendStep /\ C32_WaitStep]_vars

\* handle has a record for the current buffer while all K buffers are
\* being flushed
C32_Witness ==
    /\ cpc = "handle"
    /\ held.kind = "rec"
    /\ \A b \in Buffers : fpc[b] \notin {"none", "start"}

\* ------------------------------------------------------------------ C33

\* C33: every message the gateway publishes for a body of the agent holds
\* exactly one envelope before the trailer: the Forwarder's parse of its
\* data yields a record.
C33_MessagesAreEnvelopes ==
    \A i \in DOMAIN queue : ParseRecord(DecodeTrailer(queue[i]).data) # 0

\* ------------------------------------------------------------------ C34

\* the lines a writer can write
StoreLines == UNION { { BackupWrite(p, <<NL>>) : p \in Payloads(t) } : t \in WriterTasks \ {<<"sender", 0>>} }

\* content is a concatenation of whole lines
RECURSIVE WholeLines(_)
WholeLines(content) ==
    \/ content = <<>>
    \/ \E l \in StoreLines :
         /\ Len(l) <= Len(content)
         /\ SubSeq(content, 1, Len(l)) = l
         /\ WholeLines(SubSeq(content, Len(l) + 1, Len(content)))

\* the writers between their two writes
C34_Midway == { t \in WriterTasks : lpc[t].pc = "data" }

\* C34: the writes to the backup store are serialised.  At most one task
\* is between lock and unlock; every file other than the current one holds
\* whole lines only; the current file holds whole lines, followed by the
\* payload of the one writer that has not yet written its line feed.
C34_ContiguousLines ==
    /\ Cardinality(holders[BackupLock]) <= 1
    /\ Cardinality(C34_Midway) <= 1
    /\ \A f \in DOMAIN files :
         IF f = curPath /\ C34_Midway # {}
           THEN \E t \in C34_Midway :
                  /\ Len(lpc[t].b) <= Len(files[f])
                  /\ SubSeq(files[f], Len(files[f]) - Len(lpc[t].b) + 1, Len(files[f])) = lpc[t].b
                  /\ WholeLines(SubSeq(files[f], 1, Len(files[f]) - Len(lpc[t].b)))
           ELSE WholeLines(files[f])

\* a batch line and an overflow line lie in the rotated file, the current
\* file holds a line too, and a writer waits for the mutex that another
\* writer holds between its two writes
C34_Witness ==
    /\ curPath = 1
    /\ 0 \in DOMAIN files
    /\ \E s \in {<<1>>, <<2, 3>>}, r \in 1 .. MaxRecords :
         files[0] = SpooledLine(s) \o OverflowLine(r)
    /\ Len(files[1]) > 0
    /\ C34_Midway # {}
    /\ \E t \in WriterTasks : t[1] # "sender" /\ lpc[t].pc = "idle"

\* ------------------------------------------------------------------ C35

\* C35: the body of a POST /trace is the complete zstd frame of the batch:
\* it has the length of the frame and nothing of the frame is left unread.
C35_BodyIsWholeFrame ==
    zout # NoBody => zout.len = zin.frame /\ zout.unused = 0

\* ------------------------------------------------------------------ C36

\* record r lies in a batch buffer; the Connector has taken r from the
\* channel and r has not left its buffer
C36_Buffered(r) == \E b \in Buffers : r \in RecordsIn(buf[b])
C36_Taken(r) == held = Rec(r) \/ C36_Buffered(r)

\* the record listen() returned is put into the current buffer by handle
C36_HeldIsBuffered ==
    (held.kind = "rec" /\ held' # held) => held.rec \in RecordsIn(buf'[index])

\* a record leaves its buffer only at the end of the flush of that buffer,
\* sent or written to the current backup file
C36_LeavesFlushed ==
    \A b \in Buffers : \A r \in RecordsIn(buf[b]) \ RecordsIn(buf'[b]) :
        /\ fpc[b] \in {"replied", "backup"}
        /\ fpc'[b] = "none"
        /\ r \in sent' \/ r \in RecordsIn(files'[curPath])

\* the index moves by one modulo K, and it moves exactly when handle
\* schedules the flush of the current buffer
C36_IndexStep ==
    /\ index' # index =>
         /\ index' = (index + 1) % K
         /\ cpc = "handle"
         /\ fpc[index] = "none" /\ fpc'[index] = "start"
    /\ (cpc = "handle" /\ fpc[index] = "none" /\ fpc'[index] = "start") =>
         index' = (index + 1) % K

\* a buffer other than the current one is fresh or being flushed
C36_NonCurrentInFlight ==
    /\ index \in Buffers
    /\ \A b \in Buffers \ {index} : Len(buf[b]) > 1 => fpc[b] # "none"

C37_Running == { c \in Callers : callers[c].pc = "init" }
C37_Successes == { i \in DOMAIN attempts : attempts[i] = "ok" }

\* C37: at most one initializer runs at a time; once an initializer has
\* succeeded none is started again, so the value is written at most once.
C37_OneValueForever ==
    /\ Cardinality(C37_Running) <= 1
    /\ initialized => C37_Running = {}
    /\ Cardinality(C37_Successes) <= 1

\* ------------------------------------------------------------------ C38

\* the order in which locks are taken: the guard of a batch buffer, then a
\* buffer of the pool, then the errors rw-lock; or the guard of a batch
\* buffer, then the backup mutex, then the mutex of the last switch
C38_Rank(l) ==
    IF l[1] = "batch" THEN 0
    ELSE IF l[1] = "pool" THEN 1
    ELSE IF l[1] = "errors" THEN 2
    ELSE IF l[1] = "backup" THEN 3
    ELSE 4

\* what a task holds, the pool counted as one lock: a flush task has it
\* from the lock of the pool's receiver until its guard has been dropped
C38_InPool(t) == t[1] = "flush" /\ ptask[PoolCallerOf(t[2])].pc # "idle"
C38_Held(t) ==
    {l \in Locks : t \in holders[l]} \cup (IF C38_InPool(t) THEN {<<"pool", 0>>} ELSE {})

\* every lock a task takes ranks above every lock it holds
C38_OrderedStep ==
    \A t \in LockTasks : \A l \in C38_Held(t)' \ C38_Held(t) :
        \A h \in C38_Held(t) : C38_Rank(h) < C38_Rank(l)

\* the positions at which a task waits for a lock
C38_WaitsAt(t) ==
    IF t[1] = "connector" THEN {"idle"}
    ELSE IF t[1] = "flush" THEN {"start", "send", "failed", "store"}
    ELSE IF t[1] = "reconnector" THEN {"idle", "ok"}
    ELSE IF t[1] = "overflow" THEN {"idle"}
    ELSE {"idle", "pass", "rotate"}

\* C38: the agent never deadlocks.  Locks are taken in one order by every
\* task, and every task that waits for a lock (at "send": for a buffer of
\* the pool) eventually gets it: no task stays at waiting positions for
\* ever.
C38_NoDeadlock ==
    /\ [][C38_OrderedStep]_vars
    /\ \A t \in LockTasks : []<>(lpc[t].pc \notin C38_WaitsAt(t))

\* a flush task that holds the guard of its buffer and a buffer of the
\* pool waits for the errors lock, which the Reconnector holds; the other
\* flush task waits for the pool's receiver; the overflow task waits for
\* the backup mutex, which the BackupSender holds together with the mutex
\* of the last switch
C38_Witness ==
    \E b \in Buffers :
      /\ lpc[<<"flush", b>>].pc = "failed"
      /\ ptask[PoolCallerOf(b)].pc = "holding"
      /\ <<"reconnector", 0>> \in holders[ErrorsLock]
      /\ lpc[<<"flush", (b + 1) % K>>].pc = "send"
      /\ ptask[PoolCallerOf((b + 1) % K)].pc \in {"idle", "recv", "locking"}
      /\ lpc[<<"overflow", 0>>].pc = "idle"
      /\ holders[BackupLock] = {<<"sender", 0>>}
      /\ holders[TimerLock] = {<<"sender", 0>>}

\* ------------------------------------------------------------------ C39

\* the flush of b ends a POST /trace that succeeded; it counts a failure
C39_Succeeds(b) ==
    fpc[b] = "replied" /\ TraceSuccess(fl[b].reply) /\ fpc'[b] = "none"
C39_Fails(b) ==
    /\ fpc[b] = "failed" \/ (fpc[b] = "replied" /\ ~TraceSuccess(fl[b].reply))
    /\ fpc'[b] = "backup"

\* a probe that was answered 204 is completed
C39_ProbeSucceeds == probe # NoReply /\ ProbeOk(probe) /\ probe' = NoReply

C39_ErrorsStep ==
    \* a successful send leaves errors alone
    /\ \A b \in Buffers : C39_Succeeds(b) => errors' = errors
    \* errors decreases only when a probe succeeds, and then from K to 0
    /\ errors' < errors => (C39_ProbeSucceeds /\ errors = K /\ errors' = 0)
    \* every failed send counts, up to K, and nothing else does
    /\ \A b \in Buffers : C39_Fails(b) => errors' = IF errors < K THEN errors + 1 ELSE K
    /\ errors' > errors => \E b \in Buffers : C39_Fails(b)

\* C39: a successful POST /trace leaves errors unchanged; errors decreases
\* only when a probe succeeds, and then from K to 0; every failed send adds
\* one up to K.  So errors is the number of failed sends since the last
\* successful probe, capped at K, whether or not sends succeeded in between,
\* and the Connector is disconnected when it is K.
C39_FailuresAccumulate ==
    /\ [](errors \in 0 .. K /\ (Disconnected <=> errors = K))
    /\ [][C39_ErrorsStep]_vars

\* the batches of records 1 and 3 failed and were spooled, the batch of
\* record 2 was sent in between, and the Connector is disconnected
C39_Witness ==
    /\ errors = K
    /\ Disconnected
    /\ sent = {2}
    /\ files[curPath] = SpooledLine(<<1>>) \o SpooledLine(<<3>>)

\* ------------------------------------------------------------------ C40

\* C40: a graceful stop loses no accepted record.  When the Connector has
\* returned, no record is left in the channel: what was queued when the
\* latch was set has been put into a batch and sent or spooled.
C40_ChannelDrainedAtStop ==
    cpc = "done" => chan = <<>>

TypeOK ==
    /\ accepted \in 0 .. MaxRecords
    /\ errors \in 0 .. K
    /\ poolFree \in 0 .. K
    /\ index \in Buffers
    /\ curPath \in DOMAIN files

=============================================================================
